---------------------------- MODULE Spec2Model ----------------------------
(***************************************************************************)
(* A model of maintenance_alert.py and maintenance_web.py: the maintenance *)
(* history kept in a JSON file (StatisticsManager), the servicing of       *)
(* equipment rows in the workbook (ExcelHandler.mark_as_serviced and the   *)
(* /mark-serviced and /mark-bulk-serviced handlers), the e-mail digest     *)
(* (MaintenanceAlertApp.run and the /send-email handler), the recalculated *)
(* copy of the workbook in TMP_DIR, the dashboard (GET /), two calls of    *)
(* mark_as_serviced or of update_statistics running at the same time,      *)
(* /send-email beside /chart.png, the unreadable history file and single   *)
(* calls of read_data.                                                     *)
(*                                                                         *)
(* Strings of the source that are not ASCII are transliterated.            *)
(***************************************************************************)
EXTENDS Integers, Sequences, FiniteSets, TLC

VARIABLES
    today,        \* datetime.now().date(), as a day number (see Months)
    tick,         \* the time of day: the number of timestamps taken today
    historyFile,  \* Config.HISTORY_FILE: [st, content]
    stats,        \* the value the last get_statistics call returned
    lastCall,     \* what the last handler was called with and found
    calls,        \* date -> the counts of the latest update_statistics call
    ioFailures,   \* the calls so far in which a load or save of the history
                  \* file failed
    workbook,     \* the Excel file: [exists, sheets]
    locked,       \* the Excel file is open in another program
    backups,      \* the copies in Config.BACKUP_DIR, oldest first
    events,       \* what the last handler did, in order
    response,     \* the HTTP response of the last web request
    chartFile,    \* DATA_DIR/maintenance_status_chart.png: [exists, offset]
    outbox,       \* the messages handed to server.sendmail, oldest first
    tmpFile,      \* the file TMP_DIR/EXCEL_FILENAME: [exists, size, ..., sheets]
    procs         \* the calls in progress at the same time: id -> [pc, ...]

statsVars == <<today, tick, historyFile, stats, calls, ioFailures>>
excelVars == <<workbook, locked, backups>>
mailVars == <<chartFile, outbox>>
vars == <<today, tick, historyFile, stats, lastCall, calls, ioFailures,
          workbook, locked, backups, events, response, chartFile, outbox,
          tmpFile, procs>>

---------------------------------------------------------------------------
(* Bounds of the model *)

\* the days the clock may advance after the first day
MaxDays == 1
\* the timestamps that may be taken on one day
MaxTick == 2
\* the largest number of equipment rows counted in one status
MaxCount == 1
\* the calls in which a load or a save of the history file may fail
MaxFailures == 1

---------------------------------------------------------------------------
(* Config *)

VERSION == "2.5.1"
STATUS_URGENT == "OBSLUZHIT"
STATUS_WARNING == "Vnimanie"
STATUS_OK == "Ne trebuetsya"
MAINTENANCE_STATUSES == <<STATUS_URGENT, STATUS_WARNING, STATUS_OK>>
RECIPIENTS == <<"asutp@pavlik-gold.ru">>
SENDER_EMAIL == "maintenance.asutp@pavlik-gold.ru"
CHART_DAYS == 62

\* update_statistics cuts a history of more than HistoryLimit records to its
\* last HistoryKeep records
HistoryLimit == 120
HistoryKeep == 100

---------------------------------------------------------------------------
(* Dates.  A date is a day number; day 0 is Monday 2025-09-01.  Months     *)
(* lists the months the model's dates fall in, each with the day number of *)
(* its first day.                                                          *)

Months == <<
    [y |-> 2025, m |-> 9,  first |-> 0,   len |-> 30],
    [y |-> 2025, m |-> 10, first |-> 30,  len |-> 31],
    [y |-> 2025, m |-> 11, first |-> 61,  len |-> 30],
    [y |-> 2025, m |-> 12, first |-> 91,  len |-> 31],
    [y |-> 2026, m |-> 1,  first |-> 122, len |-> 31],
    [y |-> 2026, m |-> 2,  first |-> 153, len |-> 28],
    [y |-> 2026, m |-> 3,  first |-> 181, len |-> 31] >>

MonthOf(d) ==
    CHOOSE i \in 1..Len(Months) :
        Months[i].first <= d /\ d < Months[i].first + Months[i].len

\* date.weekday(): Monday is 0
weekday(d) == d % 7

\* date.isoformat(): the year, month and day of the text "YYYY-MM-DD"
isoformat(d) ==
    LET mo == Months[MonthOf(d)]
    IN  [y |-> mo.y, m |-> mo.m, d |-> d - mo.first + 1]

\* datetime.fromisoformat(text).date()
fromisoformat(s) ==
    LET i == CHOOSE i \in 1..Len(Months) : Months[i].y = s.y /\ Months[i].m = s.m
    IN  Months[i].first + s.d - 1

\* base_date.replace(day=1)
replace_day1(d) == Months[MonthOf(d)].first

\* datetime.now(): the date and the time of day
Now == [day |-> today, tick |-> tick]

---------------------------------------------------------------------------
(* StatisticsManager: the history file *)

\* last_update of a configuration that was never saved (None)
NoTime == [day |-> -1, tick |-> 0]
NoContent == [unreadable |-> TRUE]
MissingFile == [st |-> "missing", content |-> NoContent]
CorruptFile == [st |-> "corrupt", content |-> NoContent]

\* what a save of the history file can do: write it, fail to open it (the
\* file is left as it was), or fail while writing (the file was truncated
\* by the open and holds no complete JSON text)
SaveOutcomes == {"ok", "open_fails", "write_fails"}

save_config(file, config, now, outcome) ==
    LET stamped == [config EXCEPT !.last_update = now, !.version = VERSION]
    IN  [config |-> stamped,
         file |-> CASE outcome = "ok" -> [st |-> "ok", content |-> stamped]
                    [] outcome = "open_fails" -> file
                    [] OTHER -> CorruptFile]

\* _create_default_config that returns the default configuration unsaved
default_config_unsaved(file, now, outcome) ==
    [config |-> [maintenance_history |-> <<>>, last_update |-> NoTime,
                 version |-> VERSION],
     file |-> file]

_create_default_config(file, now, outcome) ==
    save_config(file,
                [maintenance_history |-> <<>>, last_update |-> NoTime,
                 version |-> VERSION],
                now, outcome)

_validate_config_structure(config) ==
    LET c1 == IF "maintenance_history" \in DOMAIN config THEN config
              ELSE config @@ [maintenance_history |-> <<>>]
        c2 == IF "last_update" \in DOMAIN c1 THEN c1
              ELSE c1 @@ [last_update |-> NoTime]
    IN  IF "version" \in DOMAIN c2 THEN c2 ELSE c2 @@ [version |-> VERSION]

\* the configuration returned and the file as load_config leaves it: a file
\* that is missing or cannot be parsed is replaced by the default one
load_config(file, now, outcome) ==
    IF file.st = "ok"
    THEN [config |-> _validate_config_structure(file.content), file |-> file]
    ELSE _create_default_config(file, now, outcome)

\* today_record_index finding no record: every call appends
today_record_index_none(history, s) == 0

\* next((i for i, record in enumerate(history) if record['date'] == s), None);
\* 0 stands for None
today_record_index(history, s) ==
    IF \E i \in 1..Len(history) : history[i].date = s
    THEN CHOOSE i \in 1..Len(history) :
            /\ history[i].date = s
            /\ \A j \in 1..(i - 1) : history[j].date # s
    ELSE 0

\* history[:n] in place of history[-n:]
FirstRecords(history, n) ==
    IF Len(history) <= n THEN history ELSE SubSeq(history, 1, n)

\* history[-n:]
LastRecords(history, n) ==
    IF Len(history) <= n THEN history
    ELSE SubSeq(history, Len(history) - n + 1, Len(history))

maintenance_record(now, total_records, status_counts) ==
    [date |-> isoformat(now.day),
     total_equipment |-> total_records,
     ok |-> status_counts[STATUS_OK],
     urgent |-> status_counts[STATUS_URGENT],
     warning |-> status_counts[STATUS_WARNING],
     timestamp |-> now]

\* updated_history keeping the first records where the code keeps the last
updated_history_head(history, record) ==
    LET i == today_record_index(history, record.date)
        h == IF i # 0 THEN [history EXCEPT ![i] = record]
             ELSE Append(history, record)
    IN  IF Len(h) > HistoryLimit THEN FirstRecords(h, HistoryKeep) ELSE h

\* updated_history without the cut
updated_history_uncut(history, record) ==
    LET i == today_record_index(history, record.date)
    IN  IF i # 0 THEN [history EXCEPT ![i] = record] ELSE Append(history, record)

\* the history as update_statistics changes it before saving
updated_history(history, record) ==
    LET i == today_record_index(history, record.date)
        h == IF i # 0 THEN [history EXCEPT ![i] = record]
             ELSE Append(history, record)
    IN  IF Len(h) > HistoryLimit THEN LastRecords(h, HistoryKeep) ELSE h

\* update_statistics that leaves the history file alone
update_statistics_skipped(file, now, total_records, status_counts, o1, o2) == file

\* update_statistics: the file it leaves; o1 is the outcome of the save
\* load_config may make, o2 that of its own save
update_statistics(file, now, total_records, status_counts, o1, o2) ==
    LET loaded == load_config(file, now, o1)
        record == maintenance_record(now, total_records, status_counts)
        config == [loaded.config EXCEPT !.maintenance_history =
                      updated_history(loaded.config.maintenance_history, record)]
    IN  save_config(loaded.file, config, now, o2).file

---------------------------------------------------------------------------
(* StatisticsManager: the statistics of the periods *)

timedelta(days) == days

_compute_period_boundaries(base_date) ==
    LET yesterday_local == base_date - timedelta(1)
        day_before_yesterday_local == yesterday_local - timedelta(1)
        week_start_local == base_date - timedelta(weekday(base_date))
        last_week_start_local == week_start_local - timedelta(7)
        last_week_end_local == week_start_local - timedelta(1)
        prev_prev_week_start_local == last_week_start_local - timedelta(7)
        prev_prev_week_end_local == last_week_start_local - timedelta(1)
        month_start_local == replace_day1(base_date)
        last_month_end_local == month_start_local - timedelta(1)
        last_month_start_local == replace_day1(last_month_end_local)
        prev_prev_month_end_local == last_month_start_local - timedelta(1)
        prev_prev_month_start_local == replace_day1(prev_prev_month_end_local)
    IN  [yesterday |-> yesterday_local,
         day_before_yesterday |-> day_before_yesterday_local,
         week_start |-> week_start_local,
         last_week_start |-> last_week_start_local,
         last_week_end |-> last_week_end_local,
         prev_prev_week_start |-> prev_prev_week_start_local,
         prev_prev_week_end |-> prev_prev_week_end_local,
         month_start |-> month_start_local,
         last_month_start |-> last_month_start_local,
         last_month_end |-> last_month_end_local,
         prev_prev_month_start |-> prev_prev_month_start_local,
         prev_prev_month_end |-> prev_prev_month_end_local]

max(a, b) == IF a >= b THEN a ELSE b

\* lambda rec: rec.get('ok', rec.get('serviced', 0))
extract_ok(rec) ==
    IF "ok" \in DOMAIN rec THEN rec.ok
    ELSE IF "serviced" \in DOMAIN rec THEN rec.serviced ELSE 0

\* lambda rec: rec.get('urgent', 0)
extract_urgent(rec) == IF "urgent" \in DOMAIN rec THEN rec.urgent ELSE 0

extract_value(field, rec) ==
    IF field = "ok" THEN extract_ok(rec) ELSE extract_urgent(rec)

\* one turn of the loop of _aggregate_raw_field: the if/elif chain puts a
\* record in the first period that holds its date
aggregate_record(raw, record, today_local, bounds, field) ==
    LET record_date == fromisoformat(record.date)
        value == extract_value(field, record)
    IN  IF record_date = today_local
          THEN [raw EXCEPT !.today = value]
        ELSE IF record_date = bounds.yesterday
          THEN [raw EXCEPT !.yesterday = value]
        ELSE IF record_date = bounds.day_before_yesterday
          THEN [raw EXCEPT !.day_before_yesterday = value]
        ELSE IF bounds.week_start <= record_date /\ record_date <= today_local
          THEN [raw EXCEPT !.this_week = max(raw.this_week, value)]
        ELSE IF bounds.last_week_start <= record_date
                /\ record_date <= bounds.last_week_end
          THEN [raw EXCEPT !.last_week = max(raw.last_week, value)]
        ELSE IF bounds.prev_prev_week_start <= record_date
                /\ record_date <= bounds.prev_prev_week_end
          THEN [raw EXCEPT !.week_before_last = max(raw.week_before_last, value)]
        ELSE IF bounds.month_start <= record_date /\ record_date <= today_local
          THEN [raw EXCEPT !.this_month = max(raw.this_month, value)]
        ELSE IF bounds.last_month_start <= record_date
                /\ record_date <= bounds.last_month_end
          THEN [raw EXCEPT !.last_month = max(raw.last_month, value)]
        ELSE IF bounds.prev_prev_month_start <= record_date
                /\ record_date <= bounds.prev_prev_month_end
          THEN [raw EXCEPT !.month_before_last = max(raw.month_before_last, value)]
        ELSE raw

\* the loop of _aggregate_raw_field over records lo..hi, in order: the first
\* half, then the second half on the first half's result
RECURSIVE aggregate_from(_, _, _, _, _, _, _)
aggregate_from(history_records, lo, hi, raw, today_local, bounds, field) ==
    IF lo > hi THEN raw
    ELSE IF lo = hi
      THEN aggregate_record(raw, history_records[lo], today_local, bounds, field)
    ELSE
      LET mid == (lo + hi) \div 2
          half == aggregate_from(history_records, lo, mid, raw, today_local,
                                 bounds, field)
      IN  IF half.today = half.today
          THEN aggregate_from(history_records, mid + 1, hi, half, today_local,
                              bounds, field)
          ELSE half

_aggregate_raw_field(history_records, today_local, bounds, field) ==
    aggregate_from(history_records, 1, Len(history_records),
                   [today |-> 0, yesterday |-> 0, day_before_yesterday |-> 0,
                    this_week |-> 0, last_week |-> 0, week_before_last |-> 0,
                    this_month |-> 0, last_month |-> 0, month_before_last |-> 0],
                   today_local, bounds, field)

_compute_delta_stats(raw_stats) ==
    [delta_ok_day |-> raw_stats.today - raw_stats.yesterday,
     delta_ok_prev_day |-> raw_stats.yesterday - raw_stats.day_before_yesterday,
     delta_ok_week |-> raw_stats.this_week - raw_stats.last_week,
     delta_ok_prev_week |-> raw_stats.last_week - raw_stats.week_before_last,
     delta_ok_month |-> raw_stats.this_month - raw_stats.last_month,
     delta_ok_prev_month |-> raw_stats.last_month - raw_stats.month_before_last]

\* {f"urgent_{k}": v for k, v in urgent_raw_stats.items()}
urgent_prefixed(raw) ==
    [urgent_today |-> raw.today, urgent_yesterday |-> raw.yesterday,
     urgent_day_before_yesterday |-> raw.day_before_yesterday,
     urgent_this_week |-> raw.this_week, urgent_last_week |-> raw.last_week,
     urgent_week_before_last |-> raw.week_before_last,
     urgent_this_month |-> raw.this_month, urgent_last_month |-> raw.last_month,
     urgent_month_before_last |-> raw.month_before_last]

\* {**a, **b}: the keys of both, b's value where both have the key
dict_merge(a, b) == b @@ a

\* get_statistics on the configuration load_config returned
get_statistics(config, today_local) ==
    IF config.maintenance_history = <<>>
    THEN [today |-> 0, yesterday |-> 0, this_week |-> 0, last_week |-> 0,
          this_month |-> 0, last_month |-> 0]
    ELSE
      LET bounds == _compute_period_boundaries(today_local)
          ok_raw_stats == _aggregate_raw_field(config.maintenance_history,
                                               today_local, bounds, "ok")
          urgent_raw_stats == _aggregate_raw_field(config.maintenance_history,
                                                   today_local, bounds, "urgent")
          ok_delta_stats == _compute_delta_stats(ok_raw_stats)
          urgent_delta_stats == _compute_delta_stats(urgent_raw_stats)
          merged == dict_merge(dict_merge(dict_merge(ok_raw_stats, ok_delta_stats),
                                          urgent_prefixed(urgent_raw_stats)),
                               urgent_delta_stats)
      IN  [merged EXCEPT !.today = merged.delta_ok_day]

---------------------------------------------------------------------------
(* The history file at the start, and the calls on it *)

Statuses == {STATUS_URGENT, STATUS_WARNING, STATUS_OK}

Sum3(c) == c[STATUS_URGENT] + c[STATUS_WARNING] + c[STATUS_OK]

\* what read_data counts in a workbook of MaxCount equipment rows of which k
\* are to be serviced and the others need nothing
CountsOf(k) ==
    [total_records |-> MaxCount,
     status_counts |-> [c \in Statuses |->
                          IF c = STATUS_URGENT THEN k
                          ELSE IF c = STATUS_OK THEN MaxCount - k ELSE 0]]

CountChoices == {CountsOf(k) : k \in 0..MaxCount}

\* the first day of the model: HistoryLimit days have passed since day 0
FirstDay == HistoryLimit

\* the counts stored on day d of a history written before the first day
EarlierCounts(d) == CountsOf(d % 2)

\* the history file after one update_statistics call on each of the n days
\* before the first day
EarlierFile(n) ==
    IF n = 0 THEN MissingFile
    ELSE [st |-> "ok",
          content |->
            [maintenance_history |->
                [i \in 1..n |->
                    LET d == FirstDay - n + i - 1
                    IN  maintenance_record([day |-> d, tick |-> 1],
                                           EarlierCounts(d).total_records,
                                           EarlierCounts(d).status_counts)],
             last_update |-> [day |-> FirstDay - 1, tick |-> 1],
             version |-> VERSION]]

EarlierCalls(n) == [d \in (FirstDay - n)..(FirstDay - 1) |-> EarlierCounts(d)]

\* the numbers of days on which the program ran before the first day
EarlierDays == {0, 2, HistoryLimit - 1, HistoryLimit}

NoStats == [valid |-> FALSE]
NoCall == [op |-> "none"]

\* whether a call's loads and saves of the history file all succeeded: the
\* file was readable or absent, and each save made wrote the file
CleanIO(file, o1, o2) ==
    /\ file.st # "corrupt"
    /\ file.st = "missing" => o1 = "ok"
    /\ o2 = "ok"

\* the outcomes <<o1, o2>> the saves of one call may have: o1 is that of the
\* save load_config makes when the file is not readable, o2 that of the
\* call's own save; a call may fail while failures are allowed
Outcomes(file) ==
    {o \in SaveOutcomes \X SaveOutcomes :
        /\ file.st = "ok" => o[1] = "ok"
        /\ CleanIO(file, o[1], o[2]) \/ ioFailures < MaxFailures}

Failed(file, o) == IF CleanIO(file, o[1], o[2]) THEN 0 ELSE 1

\* a call of update_statistics(urgent_items, warning_items, total_records,
\* status_counts)
UpdateStatisticsCall ==
    /\ tick < MaxTick
    /\ \E c \in CountChoices, o \in Outcomes(historyFile) :
        /\ tick' = tick + 1
        /\ historyFile' = update_statistics(historyFile, [day |-> today, tick |-> tick'],
                                            c.total_records, c.status_counts,
                                            o[1], o[2])
        /\ calls' = (today :> c) @@ calls
        /\ ioFailures' = ioFailures + Failed(historyFile, o)
        /\ lastCall' = [op |-> "update_statistics", day |-> today, counts |-> c,
                        clean |-> CleanIO(historyFile, o[1], o[2]),
                        saved |-> o[2] = "ok"]
    /\ stats' = NoStats
    /\ UNCHANGED <<today, workbook, locked, backups, events, response,
                   chartFile, outbox,
                   tmpFile, procs>>

\* midnight
AdvanceDay ==
    /\ today < FirstDay + MaxDays
    /\ today' = today + 1
    /\ tick' = 0
    /\ stats' = NoStats
    /\ lastCall' = NoCall
    /\ UNCHANGED <<historyFile, calls, ioFailures, workbook, locked, backups,
                   events, response, chartFile, outbox,
                   tmpFile, procs>>

InitStats ==
    /\ today = FirstDay
    /\ tick = 0
    /\ \E n \in EarlierDays :
        /\ historyFile = EarlierFile(n)
        /\ calls = EarlierCalls(n)
    /\ stats = NoStats
    /\ lastCall = NoCall
    /\ ioFailures = 0

NoSheets == [name \in {} |-> <<>>]
MissingWorkbook == [st |-> "missing", sheets |-> NoSheets]
NoResponse == [kind |-> "none"]
NoChart == [exists |-> FALSE]
NoTmp == [exists |-> FALSE, sheets |-> NoSheets]
NoProcs == <<>>

InitOther ==
    /\ workbook = MissingWorkbook
    /\ locked = FALSE
    /\ backups = <<>>
    /\ events = <<>>
    /\ response = NoResponse
    /\ chartFile = NoChart
    /\ outbox = <<>>
    /\ tmpFile = NoTmp
    /\ procs = NoProcs

Init == InitStats /\ InitOther

Next == UpdateStatisticsCall \/ AdvanceDay

\* the history file under update_statistics calls, day after day
Spec == Init /\ [][Next]_vars

---------------------------------------------------------------------------
(* get_statistics on the histories of a week *)

\* how many days before today the records of a history may be dated
RecordAges == <<25, 8, 3, 1, 0>>

\* the history with a record of age RecordAges[i] for each i with
\* pick[i] # -1, which holds CountsOf(pick[i]); oldest first, as appended
RECURSIVE HistoryOf(_, _, _)
HistoryOf(pick, day, i) ==
    IF i > Len(RecordAges) THEN <<>>
    ELSE LET rest == HistoryOf(pick, day, i + 1)
         IN  IF pick[i] = -1 THEN rest
             ELSE <<maintenance_record([day |-> day - RecordAges[i], tick |-> 1],
                                       CountsOf(pick[i]).total_records,
                                       CountsOf(pick[i]).status_counts)>> \o rest

\* a call of get_statistics() (the /stats page)
GetStatisticsCall ==
    /\ stats = NoStats
    /\ \E o \in Outcomes(historyFile) :
        LET loaded == load_config(historyFile, Now, o[1])
        IN  /\ o[2] = "ok"
            /\ historyFile' = loaded.file
            /\ stats' = [valid |-> TRUE,
                         value |-> get_statistics(loaded.config, today)]
            /\ ioFailures' = ioFailures + Failed(historyFile, o)
            /\ lastCall' = [op |-> "get_statistics", day |-> today,
                            history |-> loaded.config.maintenance_history]
    /\ UNCHANGED <<today, tick, calls, workbook, locked, backups, events,
                   response, chartFile, outbox,
                   tmpFile, procs>>

InitPeriods ==
    /\ today \in FirstDay..(FirstDay + 6)
    /\ tick = 0
    /\ \E pick \in [1..Len(RecordAges) -> -1..MaxCount] :
        historyFile =
            IF \A i \in 1..Len(RecordAges) : pick[i] = -1 THEN MissingFile
            ELSE [st |-> "ok",
                  content |-> [maintenance_history |-> HistoryOf(pick, today, 1),
                               last_update |-> [day |-> today, tick |-> 0],
                               version |-> VERSION]]
    /\ calls = <<>>
    /\ stats = NoStats
    /\ lastCall = NoCall
    /\ ioFailures = 0
    /\ InitOther

NextPeriods == GetStatisticsCall

SpecPeriods == InitPeriods /\ [][NextPeriods]_vars

---------------------------------------------------------------------------
(* ExcelHandler: the workbook.  A sheet maps the numbers of its rows that  *)
(* hold anything to the cells of three columns: num (A, the number of the  *)
(* equipment), last_date (I, the date of the last maintenance) and status  *)
(* (K).  A cell is [t |-> "none"] (empty), [t |-> "int", v |-> n],         *)
(* [t |-> "float", tenths |-> n], [t |-> "str", s |-> text] or             *)
(* [t |-> "datetime", at |-> time].                                        *)

SHEET_PK == "PK ASU TP"
SHEET_CABINETS == "Shkafy ASU TP"
\* SHEETS_CONFIG.keys()
SHEETS_CONFIG == <<SHEET_PK, SHEET_CABINETS>>

\* start_row and max_rows of mark_as_serviced
start_row == 5
max_rows == 500

None == [t |-> "none"]
IntCell(n) == [t |-> "int", v |-> n]
FloatCell(n) == [t |-> "float", tenths |-> n]
StrCell(text) == [t |-> "str", s |-> text]
DateCell(at) == [t |-> "datetime", at |-> at]

\* float(text) in tenths for the texts of the model, -1 for a ValueError
FloatOfStr(text) ==
    CASE text = "1" -> 10
      [] text = "2" -> 20
      [] text = "3" -> 30
      [] text = "4" -> 40
      [] text = "9" -> 90
      [] text = "2.0" -> 20
      [] OTHER -> -1

\* int(text) for the texts of the model, -1 for a ValueError: int() takes
\* digits only, no decimal point
IntOfStr(text) ==
    CASE text = "1" -> 1
      [] text = "2" -> 2
      [] text = "3" -> 3
      [] text = "4" -> 4
      [] text = "9" -> 9
      [] OTHER -> -1

\* int(float(cell_value)), -1 when it raises ValueError or TypeError
CellNumber(cell) ==
    CASE cell.t = "int" -> cell.v
      [] cell.t = "float" -> cell.tenths \div 10
      [] cell.t = "str" ->
            IF FloatOfStr(cell.s) = -1 THEN -1 ELSE FloatOfStr(cell.s) \div 10
      [] OTHER -> -1

\* sheet.cell(row=row_idx, column=1).value
ColumnA(sheet, row_idx) ==
    IF row_idx \in DOMAIN sheet THEN sheet[row_idx].num ELSE None

\* the loop without its break: the last row whose number is the target
find_row_no_break(sheet, target_number, lo, hi) ==
    LET hits == {r \in DOMAIN sheet :
                    /\ lo <= r /\ r <= hi
                    /\ sheet[r].num.t # "none"
                    /\ CellNumber(sheet[r].num) = target_number}
    IN  IF hits = {} THEN 0 ELSE CHOOSE r \in hits : \A q \in hits : q <= r

\* the loop of mark_as_serviced over rows lo..hi, in order, ending at the
\* first row whose number is the target: found_row, 0 for None
RECURSIVE find_row(_, _, _, _)
find_row(sheet, target_number, lo, hi) ==
    IF lo > hi THEN 0
    \* the cells of rows that hold nothing are None: the loop passes them
    ELSE IF \A r \in DOMAIN sheet : r < lo \/ r > hi THEN 0
    ELSE IF lo = hi
      THEN IF /\ ColumnA(sheet, lo).t # "none"
              /\ CellNumber(ColumnA(sheet, lo)) = target_number
           THEN lo ELSE 0
    ELSE
      LET mid == (lo + hi) \div 2
          first == find_row(sheet, target_number, lo, mid)
      IN  IF first # 0 THEN first
          ELSE find_row(sheet, target_number, mid + 1, hi)

\* is_file_locked: an existing file that cannot be opened for appending
is_file_locked(wb, isLocked) == wb.st # "missing" /\ isLocked

\* what copying the workbook to BACKUP_DIR can do
BackupOutcomes == {"ok", "fails"}

\* create_backup: [ok, backups, events]
create_backup(wb, bk, now, outcome) ==
    IF wb.st = "missing"
    THEN [ok |-> FALSE, backups |-> bk, events |-> <<"create_backup:no_file">>]
    ELSE IF outcome = "ok"
    THEN [ok |-> TRUE,
          backups |-> Append(bk, [stamp |-> now, content |-> wb]),
          events |-> <<"create_backup:ok">>]
    ELSE [ok |-> FALSE, backups |-> bk, events |-> <<"create_backup:failed">>]

\* what wb.save can do: write the file, fail to open it (the file is left as
\* it was), or fail while writing (the file is left damaged)
WorkbookSaveOutcomes == {"ok", "open_fails", "write_fails"}

\* the environment of one mark_as_serviced call
MarkEnvs == [backup : BackupOutcomes, save : WorkbookSaveOutcomes]

Failure(msg, wb, bk, ev) ==
    [ok |-> FALSE, message |-> msg, workbook |-> wb, backups |-> bk, events |-> ev]

\* the part of mark_as_serviced in the try block, after the backup
mark_row(wb, bk, ev, sheet_name, row_number, now, env) ==
    IF wb.st = "damaged"
      THEN Failure("update_error", wb, bk, ev \o <<"load_workbook:failed">>)
    ELSE IF sheet_name \notin DOMAIN wb.sheets
      THEN Failure("sheet_not_found", wb, bk, ev \o <<"load_workbook">>)
    ELSE IF IntOfStr(row_number) = -1
      THEN Failure("bad_row_number", wb, bk, ev \o <<"load_workbook">>)
    ELSE
      LET found_row == find_row(wb.sheets[sheet_name], IntOfStr(row_number),
                                start_row, start_row + max_rows - 1)
      IN  IF found_row = 0
            THEN Failure("row_not_found", wb, bk, ev \o <<"load_workbook">>)
          ELSE IF env.save = "open_fails"
            THEN Failure("update_error", wb, bk,
                         ev \o <<"load_workbook", "save:failed">>)
          ELSE IF env.save = "write_fails"
            THEN Failure("update_error", [wb EXCEPT !.st = "damaged"], bk,
                         ev \o <<"load_workbook", "save:failed">>)
          ELSE [ok |-> TRUE, message |-> "serviced",
                workbook |-> [wb EXCEPT !.sheets[sheet_name][found_row].last_date
                                            = DateCell(now)],
                backups |-> bk,
                events |-> ev \o <<"load_workbook", "save">>]

\* mark_as_serviced whose test of the lock opens the file for writing ('w'
\* for 'a'), which empties it
mark_as_serviced_truncating(wb, isLocked, bk, sheet_name, row_number, make_backup, now, env) ==
    IF wb.st = "missing" THEN Failure("file_not_found", wb, bk, <<>>)
    ELSE IF is_file_locked(wb, isLocked)
      THEN Failure("file_locked", wb, bk, <<"is_file_locked">>)
    ELSE mark_row([wb EXCEPT !.st = "damaged"], bk, <<"is_file_locked">>,
                  sheet_name, row_number, now, env)

\* mark_as_serviced(sheet_name, row_number, make_backup):
\* [ok, message, workbook, backups, events]
mark_as_serviced(wb, isLocked, bk, sheet_name, row_number, make_backup, now, env) ==
    IF wb.st = "missing" THEN Failure("file_not_found", wb, bk, <<>>)
    ELSE IF is_file_locked(wb, isLocked)
      THEN Failure("file_locked", wb, bk, <<"is_file_locked">>)
    ELSE IF make_backup
      THEN LET b == create_backup(wb, bk, now, env.backup)
           IN  mark_row(wb, b.backups, <<"is_file_locked">> \o b.events,
                        sheet_name, row_number, now, env)
    ELSE mark_row(wb, bk, <<"is_file_locked">>, sheet_name, row_number, now, env)

---------------------------------------------------------------------------
(* maintenance_web.py: /mark-serviced and /mark-bulk-serviced *)

\* text.strip() for the texts of the model
strip(text) == IF text = " 1 " THEN "1" ELSE IF text = "  " THEN "" ELSE text

Redirect(status, message) ==
    [kind |-> "redirect", serviced_status |-> status, serviced_message |-> message]

\* an exception that leaves the handler: Flask answers 500
ServerError(exception) == [kind |-> "error500", exception |-> exception]

\* the environment of the k-th mark_as_serviced call of a request: its save
\* has env's outcome in the call numbered env.at and writes the file in the
\* others
EnvOfCall(env, k) ==
    [backup |-> env.backup, save |-> IF k = env.at THEN env.save ELSE "ok"]

\* mark_serviced(): [response, workbook, backups, events, ok]
mark_serviced(wb, isLocked, bk, form, now, env) ==
    LET sheet_name == strip(form.sheet_name)
        row_number == strip(form.row_number)
    IN  IF sheet_name = "" \/ row_number = ""
        THEN [response |-> Redirect("missing_params", ""), workbook |-> wb,
              backups |-> bk, events |-> <<>>, ok |-> FALSE]
        ELSE LET r == mark_as_serviced(wb, isLocked, bk, sheet_name, row_number,
                                       TRUE, now, EnvOfCall(env, 1))
             IN  [response |-> Redirect(IF r.ok THEN "success" ELSE "error",
                                        r.message),
                  workbook |-> r.workbook, backups |-> r.backups,
                  events |-> r.events, ok |-> r.ok]

\* the mark_as_serviced call of the item loop, with make_backup=True
bulk_mark_with_backup(wb, isLocked, bk, sheet_name, row_number, now, env) ==
    mark_as_serviced(wb, isLocked, bk, sheet_name, row_number, TRUE, now, env)

\* the mark_as_serviced call of the item loop: make_backup=False
bulk_mark(wb, isLocked, bk, sheet_name, row_number, now, env) ==
    mark_as_serviced(wb, isLocked, bk, sheet_name, row_number, FALSE, now, env)

\* the item loop of mark_bulk_serviced from item i on; acc holds workbook,
\* backups, events, success_count, error_count, calls (the mark_as_serviced
\* calls made), done (the items gone through) and raised (the exception
\* that ended the loop, "" for none)
RECURSIVE bulk_loop(_, _, _, _, _, _)
bulk_loop(items, i, acc, isLocked, now, env) ==
    IF i > Len(items) \/ acc.raised # "" THEN acc
    ELSE
      LET sheet_name == strip(items[i].sheet_name)
          row_number == strip(items[i].row_number)
      IN  IF sheet_name = "" \/ row_number = ""
          THEN bulk_loop(items, i + 1,
                         [acc EXCEPT !.error_count = @ + 1, !.done = @ + 1],
                         isLocked, now, env)
          ELSE
            LET r == bulk_mark(acc.workbook, isLocked, acc.backups, sheet_name,
                               row_number, now, EnvOfCall(env, acc.calls + 1))
                next == [acc EXCEPT !.workbook = r.workbook,
                                    !.backups = r.backups,
                                    !.events = @ \o r.events,
                                    !.calls = @ + 1]
            IN  IF r.ok
                THEN bulk_loop(items, i + 1,
                               [next EXCEPT !.success_count = @ + 1, !.done = @ + 1],
                               isLocked, now, env)
                \* errors.append(f"{designation}: {message}"): no name
                \* designation is defined in mark_bulk_serviced
                ELSE [next EXCEPT !.error_count = @ + 1, !.raised = "NameError"]

\* mark_bulk_serviced(): [response, workbook, backups, events, success_count,
\* error_count, done]; request is [parsed, items], the value of
\* json.loads(items_json) or its failure
mark_bulk_serviced(wb, isLocked, bk, request, now, env) ==
    LET early(message) ==
            [response |-> Redirect("error", message), workbook |-> wb,
             backups |-> bk, events |-> <<>>, success_count |-> 0,
             error_count |-> 0, done |-> 0, in_loop |-> FALSE]
    IN  IF ~request.parsed THEN early("bad_json")
        ELSE IF request.items = <<>> THEN early("nothing_selected")
        ELSE IF is_file_locked(wb, isLocked) THEN early("file_locked")
        ELSE
          LET b == create_backup(wb, bk, now, env.backup)
              acc == bulk_loop(request.items, 1,
                               [workbook |-> wb, backups |-> b.backups,
                                events |-> <<"is_file_locked">> \o b.events,
                                success_count |-> 0, error_count |-> 0,
                                calls |-> 0, done |-> 0, raised |-> ""],
                               isLocked, now, env)
              status_param == IF acc.error_count = 0 THEN "success"
                              ELSE IF acc.success_count = 0 THEN "error"
                              ELSE "success"
          IN  [response |-> IF acc.raised # "" THEN ServerError(acc.raised)
                            ELSE Redirect(status_param, "bulk_result"),
               workbook |-> acc.workbook, backups |-> acc.backups,
               events |-> acc.events, success_count |-> acc.success_count,
               error_count |-> acc.error_count, done |-> acc.done,
               in_loop |-> TRUE]

---------------------------------------------------------------------------
(* The workbook under the servicing requests of the dashboard *)

\* a row: the cells of columns A (number), I (last date) and K (status), and
\* of the columns of the object and of the designation
Row(num, status) ==
    [num |-> num, last_date |-> None, status |-> status,
     object |-> StrCell("ZIF"), designation |-> StrCell("PK-1")]

\* the sheet of the computers: a header in row 4, the number 1 twice (rows
\* 5 and 8), numbers kept as 2.0, as 9.5 and as the text "3", an empty row,
\* and a row below the 500 rows read
SheetPK ==
    (4 :> [num |-> StrCell("No"), last_date |-> StrCell("Data"),
           status |-> StrCell("Status")])
    @@ (5 :> Row(IntCell(1), StrCell(STATUS_URGENT)))
    @@ (6 :> Row(FloatCell(20), StrCell(STATUS_WARNING)))
    @@ (7 :> Row(None, None))
    @@ (8 :> Row(IntCell(1), StrCell(STATUS_OK)))
    @@ (9 :> Row(FloatCell(95), StrCell(STATUS_OK)))
    @@ (start_row + max_rows - 1 :> Row(StrCell("3"), StrCell(STATUS_URGENT)))
    @@ (start_row + max_rows :> Row(IntCell(4), StrCell(STATUS_URGENT)))

SheetCabinets ==
    (5 :> Row(IntCell(1), StrCell(STATUS_OK)))
    @@ (6 :> Row(StrCell("2"), StrCell(STATUS_WARNING)))
    @@ (7 :> Row(StrCell("x"), StrCell(STATUS_OK)))

\* a sheet that SHEETS_CONFIG does not name
SHEET_OTHER == "Spravochnik"
SheetOther == (5 :> Row(IntCell(1), None))

StandardWorkbook ==
    [st |-> "ok",
     sheets |-> (SHEET_PK :> SheetPK) @@ (SHEET_CABINETS :> SheetCabinets)
                @@ (SHEET_OTHER :> SheetOther)]

\* the largest number of items in a bulk request
MaxItems == 2

\* the forms of /mark-serviced
MarkForms ==
    {[sheet_name |-> SHEET_PK, row_number |-> n] :
        n \in {"1", " 1 ", "2", "3", "4", "9", "x", ""}}
    \cup { [sheet_name |-> SHEET_CABINETS, row_number |-> "2"],
           [sheet_name |-> "Sklad", row_number |-> "1"],
           [sheet_name |-> "", row_number |-> "1"] }

\* the items of a bulk request: two that can be marked, one whose row is
\* not among the rows scanned, one without a sheet name
ItemPK == [sheet_name |-> SHEET_PK, row_number |-> "1"]
ItemCabinets == [sheet_name |-> SHEET_CABINETS, row_number |-> "2"]
ItemLost == [sheet_name |-> SHEET_PK, row_number |-> "4"]
ItemBlank == [sheet_name |-> "", row_number |-> "1"]

\* what the item lists repeat
ItemPatterns ==
    { <<ItemPK, ItemCabinets>>, <<ItemLost>>, <<ItemPK, ItemLost>>,
      <<ItemBlank, ItemCabinets>>, <<ItemBlank>> }

ItemLists ==
    {[i \in 1..n |-> p[((i - 1) % Len(p)) + 1]] :
        p \in ItemPatterns, n \in 0..MaxItems}

BulkRequests ==
    {[parsed |-> FALSE, items |-> <<>>]}
    \cup {[parsed |-> TRUE, items |-> l] : l \in ItemLists}

CleanEnv == [backup |-> "ok", save |-> "ok", at |-> 1]

\* the environments of a request: the copy or one save of it may fail while
\* failures are allowed
RequestEnvs ==
    {e \in [backup : BackupOutcomes, save : WorkbookSaveOutcomes,
            at : {1, MaxItems}] :
        /\ e.save = "ok" => e.at = 1
        /\ e.backup = "ok" \/ e.save = "ok"
        /\ e = CleanEnv \/ ioFailures < MaxFailures}

\* POST /mark-serviced
MarkServicedRequest ==
    /\ tick < MaxTick
    /\ \E form \in MarkForms, env \in {e \in RequestEnvs : e.at = 1} :
      \E now \in {[day |-> today, tick |-> tick + 1]} :
      \E r \in {mark_serviced(workbook, locked, backups, form, now, env)} :
            /\ tick' = tick + 1
            /\ workbook' = r.workbook
            /\ backups' = r.backups
            /\ events' = r.events
            /\ response' = r.response
            /\ lastCall' = [op |-> "mark_serviced",
                            sheet_name |-> strip(form.sheet_name),
                            row_number |-> strip(form.row_number),
                            now |-> now, ok |-> r.ok]
            /\ ioFailures' = ioFailures + (IF env = CleanEnv THEN 0 ELSE 1)
    /\ UNCHANGED <<today, historyFile, stats, calls, locked, chartFile, outbox,
                   tmpFile, procs>>

\* POST /mark-bulk-serviced
MarkBulkServicedRequest ==
    /\ tick < MaxTick
    /\ \E request \in BulkRequests, env \in RequestEnvs :
      \E now \in {[day |-> today, tick |-> tick + 1]} :
      \E r \in {mark_bulk_serviced(workbook, locked, backups, request, now, env)} :
            /\ tick' = tick + 1
            /\ workbook' = r.workbook
            /\ backups' = r.backups
            /\ events' = r.events
            /\ response' = r.response
            /\ lastCall' = [op |-> "mark_bulk_serviced", request |-> request,
                            now |-> now, in_loop |-> r.in_loop,
                            success_count |-> r.success_count,
                            error_count |-> r.error_count, done |-> r.done]
            /\ ioFailures' = ioFailures + (IF env = CleanEnv THEN 0 ELSE 1)
    /\ UNCHANGED <<today, historyFile, stats, calls, locked, chartFile, outbox,
                   tmpFile, procs>>

\* somebody opens the workbook in Excel
OpenInExcel ==
    /\ ~locked
    /\ workbook.st # "missing"
    /\ locked' = TRUE
    /\ lastCall' = NoCall
    /\ UNCHANGED <<today, tick, historyFile, stats, calls, ioFailures, workbook,
                   backups, events, response, chartFile, outbox,
                   tmpFile, procs>>

\* and closes it
CloseExcel ==
    /\ locked
    /\ locked' = FALSE
    /\ lastCall' = NoCall
    /\ UNCHANGED <<today, tick, historyFile, stats, calls, ioFailures, workbook,
                   backups, events, response, chartFile, outbox,
                   tmpFile, procs>>

InitExcel ==
    /\ today = FirstDay
    /\ tick = 0
    /\ historyFile = MissingFile
    /\ calls = <<>>
    /\ stats = NoStats
    /\ lastCall = NoCall
    /\ ioFailures = 0
    /\ workbook \in {StandardWorkbook, MissingWorkbook}
    /\ locked = FALSE
    /\ backups = <<>>
    /\ events = <<>>
    /\ response = NoResponse
    /\ chartFile = NoChart
    /\ outbox = <<>>
    /\ tmpFile = NoTmp
    /\ procs = NoProcs

NextExcel ==
    \/ MarkServicedRequest
    \/ MarkBulkServicedRequest
    \/ OpenInExcel
    \/ CloseExcel

SpecExcel == InitExcel /\ [][NextExcel]_vars

---------------------------------------------------------------------------
(* Recalculating the formulas into TMP_DIR *)

MaxMtime == 2

\* original_mtime when the caller gives none
NoMtime == -1

NoFile == [exists |-> FALSE, size |-> 0, mtime |-> 0, readable |-> FALSE]

\* the files _verify_file_write may be asked about: absent, empty, shorter
\* than 8 bytes, of 8 bytes and more, and files that open() refuses
FileChoices ==
    {NoFile}
    \cup [exists : {TRUE}, size : {0, 1, 7, 8, 9}, mtime : 1..MaxMtime,
          readable : BOOLEAN]

\* _verify_file_write with < for <= in the comparison of the times
verify_accepting_equal_mtime(file, original_mtime) ==
    IF ~file.exists \/ file.size = 0 THEN FALSE
    ELSE IF ~file.readable THEN FALSE
    ELSE IF file.size < 8 THEN FALSE
    ELSE IF original_mtime # NoMtime /\ file.mtime < original_mtime THEN FALSE
    ELSE TRUE

\* _verify_file_write(file_path, original_mtime)
_verify_file_write(file, original_mtime) ==
    IF ~file.exists \/ file.size = 0 THEN FALSE
    \* open() raises: except Exception returns False
    ELSE IF ~file.readable THEN FALSE
    \* len(f.read(8)) < 8
    ELSE IF (IF file.size < 8 THEN file.size ELSE 8) < 8 THEN FALSE
    ELSE IF original_mtime # NoMtime /\ file.mtime <= original_mtime THEN FALSE
    ELSE TRUE

EXCEL_FILENAME == "Obsluzhivanie PK i shkafov ASUTP.xlsx"
TMP_DIR == "tmp"

\* the path recalculate_formulas returns: None, or TMP_DIR / file_path.name
NoPath == [dir |-> "", name |-> ""]

\* what xlwings can do: the import fails, Excel opens, calculates and saves,
\* Excel raises (the file is open elsewhere, no Excel), the saved copy is empty
XlOutcomes == {"unavailable", "ok", "raises", "empty"}

\* the file wb.save(tmp_file_path) leaves
saved_copy(wb, xl) ==
    [exists |-> TRUE, size |-> IF xl = "empty" THEN 0 ELSE 9, readable |-> TRUE,
     dir |-> TMP_DIR, name |-> EXCEL_FILENAME, sheets |-> wb.sheets]

\* recalculate_formulas with wb.save() in place of wb.save(tmp_file_path)
recalculate_in_place(wb, tmp, xl) ==
    IF xl = "unavailable" \/ wb.st = "missing" \/ xl = "raises" \/ wb.st # "ok"
    THEN [ok |-> FALSE, path |-> NoPath, original |-> wb, tmp |-> tmp]
    ELSE IF ~_verify_file_write(saved_copy(wb, xl), NoMtime)
    THEN [ok |-> FALSE, path |-> NoPath,
          original |-> [wb EXCEPT !.st = "damaged"], tmp |-> tmp]
    ELSE [ok |-> TRUE, path |-> [dir |-> TMP_DIR, name |-> EXCEL_FILENAME],
          original |-> wb, tmp |-> tmp]

\* recalculate_formulas(file_path): [ok, path] is the pair returned,
\* original and tmp are the two files after the call
recalculate_formulas(wb, tmp, xl) ==
    \* not self.xlwings_available
    IF xl = "unavailable"
    THEN [ok |-> FALSE, path |-> NoPath, original |-> wb, tmp |-> tmp]
    \* not file_path.exists()
    ELSE IF wb.st = "missing"
    THEN [ok |-> FALSE, path |-> NoPath, original |-> wb, tmp |-> tmp]
    \* except Exception: Excel cannot open the file, or raises later
    ELSE IF xl = "raises" \/ wb.st # "ok"
    THEN [ok |-> FALSE, path |-> NoPath, original |-> wb, tmp |-> tmp]
    ELSE IF ~_verify_file_write(saved_copy(wb, xl), NoMtime)
    THEN [ok |-> FALSE, path |-> NoPath, original |-> wb,
          tmp |-> saved_copy(wb, xl)]
    \* finally: wb.close() raises on the way out of 'return True, ...'
    ELSE IF xl = "close_raises"
    THEN [ok |-> FALSE, path |-> NoPath, original |-> wb,
          tmp |-> saved_copy(wb, xl)]
    ELSE [ok |-> TRUE, path |-> [dir |-> TMP_DIR, name |-> EXCEL_FILENAME],
          original |-> wb, tmp |-> saved_copy(wb, xl)]

\* what xlwings can do in the calls of read_data taken one by one: also the
\* closing of the workbook raising after the copy was saved and verified
XlOutcomesOfRead == XlOutcomes \cup {"close_raises"}

\* excel_file_to_use that is the copy in TMP_DIR whenever one is there
excel_file_to_use_any_copy(rc) ==
    IF rc.tmp.exists THEN [st |-> "ok", sheets |-> rc.tmp.sheets] ELSE rc.original

\* excel_file_to_use of read_data: the copy when there is one, else the
\* original file
excel_file_to_use(rc) ==
    IF rc.path = NoPath THEN rc.original
    ELSE [st |-> "ok", sheets |-> rc.tmp.sheets]

---------------------------------------------------------------------------
(* Reading the workbook, the chart, the email *)

QuietSheet(sheet) ==
    [r \in DOMAIN sheet |->
        IF sheet[r].status.t = "none" \/ r < start_row THEN sheet[r]
        ELSE [sheet[r] EXCEPT !.status = StrCell(STATUS_OK)]]

\* the workbook when nothing is due
QuietWorkbook ==
    [st |-> "ok",
     sheets |-> [name \in DOMAIN StandardWorkbook.sheets |->
                    QuietSheet(StandardWorkbook.sheets[name])]]

\* pd.read_excel(header=3, nrows=500) and dropna(how='all'): the rows 5..504
\* of a sheet that hold something; reading raises when the file or the
\* sheet is not there
DataRows(wb, name) ==
    IF wb.st # "ok" \/ name \notin DOMAIN wb.sheets THEN {}
    ELSE {r \in DOMAIN wb.sheets[name] :
            /\ r >= 5 /\ r < 5 + 500
            /\ \/ wb.sheets[name][r].num.t # "none"
               \/ wb.sheets[name][r].last_date.t # "none"
               \/ wb.sheets[name][r].status.t # "none"}

RowsWithStatus(wb, name, status) ==
    {r \in DataRows(wb, name) : wb.sheets[name][r].status = StrCell(status)}

RECURSIVE SumOver(_, _)
SumOver(f, names) ==
    IF names = <<>> THEN 0 ELSE f[Head(names)] + SumOver(f, Tail(names))

\* the sheets of SHEETS_CONFIG that have rows of a status, with those rows
RECURSIVE ItemsOf(_, _, _)
ItemsOf(wb, names, status) ==
    IF names = <<>> THEN <<>>
    ELSE LET rows == RowsWithStatus(wb, Head(names), status)
             rest == ItemsOf(wb, Tail(names), status)
         IN  IF rows = {} THEN rest
             ELSE <<[Tip |-> Head(names), rows |-> rows]>> \o rest

\* read_data counting the statuses over every sheet of the file
read_data_counting_every_sheet(wb, recalc_success) ==
    [urgent_items |-> ItemsOf(wb, SHEETS_CONFIG, STATUS_URGENT),
     warning_items |-> ItemsOf(wb, SHEETS_CONFIG, STATUS_WARNING),
     total_records |->
        SumOver([name \in DOMAIN wb.sheets |-> Cardinality(DataRows(wb, name))],
                SelectSeq(SHEETS_CONFIG, LAMBDA name : name \in DOMAIN wb.sheets)),
     status_counts |->
        [status \in Statuses |->
            Cardinality(UNION {{<<name, r>> : r \in RowsWithStatus(wb, name, status)} :
                                name \in DOMAIN wb.sheets})],
     recalc_success |-> recalc_success]

\* read_data(): recalc_success is whether xlwings recalculated the formulas
read_data(wb, recalc_success) ==
    [urgent_items |-> ItemsOf(wb, SHEETS_CONFIG, STATUS_URGENT),
     warning_items |-> ItemsOf(wb, SHEETS_CONFIG, STATUS_WARNING),
     total_records |->
        SumOver([name \in DOMAIN wb.sheets |-> Cardinality(DataRows(wb, name))],
                SelectSeq(SHEETS_CONFIG, LAMBDA name : name \in DOMAIN wb.sheets)),
     status_counts |->
        [status \in Statuses |->
            SumOver([name \in DOMAIN wb.sheets |->
                        Cardinality(RowsWithStatus(wb, name, status))],
                    SelectSeq(SHEETS_CONFIG, LAMBDA name : name \in DOMAIN wb.sheets))],
     recalc_success |-> recalc_success]

\* sum(len(df) for df in items)
RECURSIVE total_of(_)
total_of(items) ==
    IF items = <<>> THEN 0 ELSE Cardinality(Head(items).rows) + total_of(Tail(items))

\* what drawing and saving the chart can do
DrawOutcomes == {"ok", "fails"}

\* create_chart(): [chart_path, file, chart]; chart_path is "" for None
create_chart(file, chart, now, outcome, draw) ==
    LET loaded == load_config(file, now, outcome)
    IN  IF loaded.config.maintenance_history = <<>> \/ draw = "fails"
        THEN [chart_path |-> "", file |-> loaded.file, chart |-> chart]
        ELSE [chart_path |-> "maintenance_status_chart.png", file |-> loaded.file,
              chart |-> [exists |-> TRUE]]

\* the body of create_body that never shows the chart
body_without_chart(data, chart_path, chart) ==
    [banner |-> ~data.recalc_success,
     chart_ref |-> FALSE,
     urgent |-> total_of(data.urgent_items),
     warning |-> total_of(data.warning_items)]

\* a body whose banner also comes with the table of warnings
body_with_banner_on_warnings(data, chart_path, chart) ==
    [banner |-> ~data.recalc_success \/ data.warning_items # <<>>,
     chart_ref |-> chart_path # "" /\ chart.exists,
     urgent |-> total_of(data.urgent_items),
     warning |-> total_of(data.warning_items)]

\* the HTML body of create_body: the banner of a failed recalculation, the
\* reference cid:status_chart, the numbers of the two tables
create_body(data, chart_path, chart) ==
    [banner |-> ~data.recalc_success,
     chart_ref |-> chart_path # "" /\ chart.exists,
     urgent |-> total_of(data.urgent_items),
     warning |-> total_of(data.warning_items)]

SmtpOutcomes == {"ok", "fails"}

\* send() that hands the sender's address to the server as a recipient too
send_and_copy_sender(box, html_body, recipients, chart_path, chart, attachment, smtp) ==
    IF smtp = "fails"
    THEN [sent |-> FALSE, outbox |-> box, events |-> <<"smtp", "log_error">>]
    ELSE [sent |-> TRUE,
          outbox |-> Append(box,
            [mail_from |-> SENDER_EMAIL,
             rcpt_to |-> recipients \o <<SENDER_EMAIL>>,
             To |-> recipients,
             body |-> html_body,
             inline |-> (IF chart_path # "" /\ chart.exists
                         THEN {"status_chart"} ELSE {})
                        \cup {"app_icon", "app_icon_alert"},
             attachment |-> attachment]),
          events |-> <<"smtp", "log_sent">>]

\* send() that tries the server a second time when the first try raised
send_with_retry(box, html_body, recipients, chart_path, chart, attachment, smtp) ==
    IF smtp = "fails"
    THEN [sent |-> FALSE, outbox |-> box,
          events |-> <<"smtp", "log_error", "smtp", "log_error">>]
    ELSE [sent |-> TRUE,
          outbox |-> Append(box,
            [mail_from |-> SENDER_EMAIL,
             rcpt_to |-> recipients,
             To |-> recipients,
             body |-> html_body,
             inline |-> (IF chart_path # "" /\ chart.exists
                         THEN {"status_chart"} ELSE {})
                        \cup {"app_icon", "app_icon_alert"},
             attachment |-> attachment]),
          events |-> <<"smtp", "log_sent">>]

\* send(html_body, recipients, chart_path, attachment_path): [sent, outbox,
\* events], the events being the uses of the SMTP server and the log lines;
\* a message holds the envelope (mail_from, rcpt_to), the To header, the
\* body, the Content-IDs of the inline images and whether the file
\* maintenance_data is attached
send(box, html_body, recipients, chart_path, chart, attachment, smtp) ==
    IF smtp = "fails"
    THEN [sent |-> FALSE, outbox |-> box, events |-> <<"smtp", "log_error">>]
    ELSE [sent |-> TRUE,
          outbox |-> Append(box,
            [mail_from |-> SENDER_EMAIL,
             rcpt_to |-> recipients,
             To |-> recipients,
             body |-> html_body,
             inline |-> (IF chart_path # "" /\ chart.exists
                         THEN {"status_chart"} ELSE {})
                        \cup {"app_icon", "app_icon_alert"},
             attachment |-> attachment]),
          events |-> <<"smtp", "log_sent">>]

\* what one run of the mailer meets: whether xlwings recalculates, the saves
\* of the history file (o of update_statistics, o3 of create_chart's
\* load_config), the drawing, whether generate_maintenance_data_file makes
\* the file, the SMTP server
MailEnvs ==
    [recalc : BOOLEAN, draw : DrawOutcomes, data_file : BOOLEAN, smtp : SmtpOutcomes]

\* create_body, generate_maintenance_data_file and send, as run() and
\* send_email() call them after update_statistics left the history file f
report_and_send(f, data, now, o3, env) ==
    LET ch == create_chart(f, chartFile, now, o3, env.draw)
        email_body == create_body(data, ch.chart_path, ch.chart)
        sending == send(outbox, email_body, RECIPIENTS, ch.chart_path, ch.chart,
                        data.urgent_items # <<>> /\ env.data_file, env.smtp)
    IN  [file |-> ch.file, chart |-> ch.chart, chart_path |-> ch.chart_path,
         sent |-> sending.sent, outbox |-> sending.outbox,
         events |-> sending.events]

\* the outcomes of the save that create_chart's load_config makes when the
\* history file f is not readable
ChartLoadOutcomes(f) == IF f.st = "ok" THEN {"ok"} ELSE SaveOutcomes

\* MaintenanceAlertApp.run()
Run ==
    /\ tick < MaxTick
    /\ \E rc \in {recalculate_formulas(workbook, tmpFile, xl) : xl \in XlOutcomes},
          o \in Outcomes(historyFile) :
      \E data \in {read_data(excel_file_to_use(rc), rc.ok)} :
      \E f \in {update_statistics(historyFile, [day |-> today, tick |-> tick + 1],
                                  data.total_records, data.status_counts,
                                  o[1], o[2])} :
            /\ workbook' = rc.original
            /\ tmpFile' = rc.tmp
            /\ tick' = tick + 1
            /\ calls' = (today :> [total_records |-> data.total_records,
                                   status_counts |-> data.status_counts]) @@ calls
            /\ ioFailures' = ioFailures + Failed(historyFile, o)
            /\ IF total_of(data.urgent_items) = 0 /\ total_of(data.warning_items) = 0
               THEN /\ historyFile' = f
                    /\ events' = <<>>
                    /\ UNCHANGED <<chartFile, outbox>>
                    /\ lastCall' = [op |-> "run", sent |-> FALSE, chart_path |-> "",
                                    recalc |-> <<rc.ok, rc.path>>]
               ELSE \E r \in {report_and_send(f, data, [day |-> today, tick |-> tick + 1],
                                             x[1], x[2]) :
                              x \in ChartLoadOutcomes(f)
                                    \X {e \in MailEnvs : e.recalc = rc.ok}} :
                          /\ historyFile' = r.file
                          /\ chartFile' = r.chart
                          /\ outbox' = r.outbox
                          /\ events' = r.events
                          /\ lastCall' = [op |-> "run", sent |-> r.sent,
                                          chart_path |-> r.chart_path,
                                          recalc |-> <<rc.ok, rc.path>>]
    /\ stats' = NoStats
    /\ UNCHANGED <<today, locked, backups, response, procs>>

\* the forms a client may post to /send-email; the handler reads none of
\* their fields
EmailForms == {[recipients |-> <<>>], [recipients |-> <<"boss@example.org">>]}

EmailRedirect(status) == [kind |-> "redirect", email_status |-> status]

\* POST /send-email
SendEmailRequest ==
    /\ tick < MaxTick
    /\ \E rc \in {recalculate_formulas(workbook, tmpFile, xl) : xl \in XlOutcomes} :
      \E data \in {read_data(excel_file_to_use(rc), rc.ok)} :
            /\ workbook' = rc.original
            /\ tmpFile' = rc.tmp
            /\ tick' = tick + 1
            /\ IF total_of(data.urgent_items) = 0 /\ total_of(data.warning_items) = 0
               THEN /\ response' = EmailRedirect("no_items")
                    /\ events' = <<>>
                    /\ UNCHANGED <<historyFile, calls, ioFailures, chartFile, outbox>>
                    /\ \E form \in EmailForms :
                          lastCall' = [op |-> "send_email", form |-> form,
                                       sent |-> FALSE, chart_path |-> "",
                                       recalc |-> <<rc.ok, rc.path>>]
               ELSE \E o \in Outcomes(historyFile) :
                    \E f \in {update_statistics(historyFile,
                                                [day |-> today, tick |-> tick + 1],
                                                data.total_records,
                                                data.status_counts, o[1], o[2])} :
                    \E r \in {report_and_send(f, data, [day |-> today, tick |-> tick + 1],
                                             x[1], x[2]) :
                              x \in ChartLoadOutcomes(f)
                                    \X {e \in MailEnvs : e.recalc = rc.ok}} :
                                /\ historyFile' = r.file
                                /\ calls' =
                                     (today :> [total_records |-> data.total_records,
                                                status_counts |-> data.status_counts])
                                     @@ calls
                                /\ ioFailures' = ioFailures + Failed(historyFile, o)
                                /\ chartFile' = r.chart
                                /\ outbox' = r.outbox
                                /\ events' = r.events
                                /\ response' =
                                     EmailRedirect(IF r.sent THEN "sent" ELSE "error")
                                /\ \E form \in EmailForms :
                                      lastCall' = [op |-> "send_email", form |-> form,
                                                   sent |-> r.sent,
                                                   chart_path |-> r.chart_path,
                                                   recalc |-> <<rc.ok, rc.path>>]
    /\ stats' = NoStats
    /\ UNCHANGED <<today, locked, backups, procs>>

InitMail ==
    /\ today = FirstDay
    /\ tick = 0
    /\ \E n \in {0, 2} :
        /\ historyFile = EarlierFile(n)
        /\ calls = EarlierCalls(n)
    /\ stats = NoStats
    /\ lastCall = NoCall
    /\ ioFailures = 0
    /\ workbook \in {StandardWorkbook, QuietWorkbook, MissingWorkbook}
    /\ locked = FALSE
    /\ backups = <<>>
    /\ events = <<>>
    /\ response = NoResponse
    /\ chartFile \in {NoChart, [exists |-> TRUE]}
    /\ outbox = <<>>
    /\ tmpFile = NoTmp
    /\ procs = NoProcs

NextMail == Run \/ SendEmailRequest

SpecMail == InitMail /\ [][NextMail]_vars

---------------------------------------------------------------------------
(* maintenance_web.py: the dashboard *)

\* request.args.get(key, default); args is a function from the keys given
get(args, key, default) == IF key \in DOMAIN args THEN args[key] ELSE default

\* text.lower() for the texts of the model
lower(text) ==
    CASE text = "PK-1" -> "pk-1"
      [] text = "Pk" -> "pk"
      [] OTHER -> text

\* needle in hay, for the texts of the model
contains(hay, needle) ==
    \/ needle = ""
    \/ needle = hay
    \/ hay = "pk-1" /\ needle \in {"p", "k", "-", "1", "pk", "k-", "-1", "pk-", "k-1"}

\* _build_items_list(dfs, status_label): the rows of the data frames, read
\* from the file that read_data used
_build_items_list(file, dfs, status_label) ==
    UNION {{[type |-> dfs[k].Tip, status |-> status_label, row |-> r,
             object |-> file.sheets[dfs[k].Tip][r].object.s,
             designation |-> file.sheets[dfs[k].Tip][r].designation.s] :
               r \in dfs[k].rows} : k \in DOMAIN dfs}

apply_filters(items, sheet_type, designation_filter, object_filter) ==
    {i \in items :
        /\ sheet_type # "all" => i.type = sheet_type
        /\ designation_filter # "" =>
              contains(lower(i.designation), lower(designation_filter))
        /\ object_filter # "all" => i.object = object_filter}

\* redirect(url_for("dashboard", **args))
DashboardRedirect(args) == [kind |-> "redirect", to |-> "dashboard", args |-> args]

\* dashboard() whose reset redirect carries the filters along
dashboard_keeping_filters(args, file, data) ==
    LET sheet_type == get(args, "sheet_type", "all")
        status_filter == get(args, "status", "all")
        designation_filter == strip(get(args, "designation", ""))
        object_filter == get(args, "object", "all")
        serviced_status == get(args, "serviced_status", "")
        urgent_list == _build_items_list(file, data.urgent_items, "urgent")
        warning_list == _build_items_list(file, data.warning_items, "warning")
        filtered_urgent ==
            IF status_filter \in {"all", "urgent"}
            THEN apply_filters(urgent_list, sheet_type, designation_filter,
                               object_filter)
            ELSE {}
        filtered_warning ==
            IF status_filter \in {"all", "warning"}
            THEN apply_filters(warning_list, sheet_type, designation_filter,
                               object_filter)
            ELSE {}
    IN  IF /\ serviced_status # "" /\ filtered_urgent = {} /\ filtered_warning = {}
           /\ \/ sheet_type # "all" \/ status_filter # "all"
              \/ designation_filter # "" \/ object_filter # "all"
        THEN DashboardRedirect(args)
        ELSE [kind |-> "render", template |-> "dashboard.html",
              status_counts |-> data.status_counts,
              total_records |-> data.total_records,
              filtered_urgent |-> filtered_urgent,
              filtered_warning |-> filtered_warning,
              serviced_status |-> serviced_status]

\* dashboard() after read_data and update_statistics: the response; a
\* serviced_status that is absent (None) is taken as the empty text
dashboard(args, file, data) ==
    LET sheet_type == get(args, "sheet_type", "all")
        status_filter == get(args, "status", "all")
        designation_filter == strip(get(args, "designation", ""))
        object_filter == get(args, "object", "all")
        serviced_status == get(args, "serviced_status", "")
        serviced_message == get(args, "serviced_message", "")
        urgent_list == _build_items_list(file, data.urgent_items, "urgent")
        warning_list == _build_items_list(file, data.warning_items, "warning")
        filtered_urgent ==
            IF status_filter \in {"all", "urgent"}
            THEN apply_filters(urgent_list, sheet_type, designation_filter,
                               object_filter)
            ELSE {}
        filtered_warning ==
            IF status_filter \in {"all", "warning"}
            THEN apply_filters(warning_list, sheet_type, designation_filter,
                               object_filter)
            ELSE {}
    IN  IF /\ serviced_status # "" /\ filtered_urgent = {} /\ filtered_warning = {}
           /\ \/ sheet_type # "all" \/ status_filter # "all"
              \/ designation_filter # "" \/ object_filter # "all"
        THEN DashboardRedirect([serviced_status |-> serviced_status,
                                serviced_message |-> serviced_message])
        ELSE [kind |-> "render", template |-> "dashboard.html",
              status_counts |-> data.status_counts,
              total_records |-> data.total_records,
              filtered_urgent |-> filtered_urgent,
              filtered_warning |-> filtered_warning,
              serviced_status |-> serviced_status]

\* dashboard() without its call of update_statistics
dashboard_without_statistics(f, now, data, o1, o2) == f

\* the call of update_statistics that dashboard() makes
dashboard_statistics(f, now, data, o1, o2) ==
    update_statistics(f, now, data.total_records, data.status_counts, o1, o2)

\* GET / with the query args; followed says that the browser follows the
\* redirect which the last request answered
Dashboard(args, followed) ==
    /\ tick < MaxTick
    /\ \E rc \in {recalculate_formulas(workbook, tmpFile, xl) : xl \in XlOutcomes},
          o \in Outcomes(historyFile) :
      \E data \in {read_data(excel_file_to_use(rc), rc.ok)} :
      \E f \in {dashboard_statistics(historyFile,
                                     [day |-> today, tick |-> tick + 1],
                                     data, o[1], o[2])} :
            /\ workbook' = rc.original
            /\ tmpFile' = rc.tmp
            /\ tick' = tick + 1
            /\ historyFile' = f
            /\ calls' = (today :> [total_records |-> data.total_records,
                                   status_counts |-> data.status_counts]) @@ calls
            /\ ioFailures' = ioFailures + Failed(historyFile, o)
            /\ response' = dashboard(args, excel_file_to_use(rc), data)
            /\ lastCall' = [op |-> "dashboard", args |-> args, followed |-> followed,
                            recalc |-> <<rc.ok, rc.path>>]
    /\ stats' = NoStats
    /\ events' = <<>>
    /\ UNCHANGED <<today, locked, backups, chartFile, outbox, procs>>

\* the query of the redirect of /mark-serviced
ServicedArgs(object, status, designation, serviced_status) ==
    [object |-> object, status |-> status, designation |-> designation,
     serviced_status |-> serviced_status, serviced_message |-> "ok"]

\* the query strings a client sends: none, one filter, and the filters of
\* the redirect of /mark-serviced, matching rows and matching none
DashboardArgs ==
    {<<>>, [sheet_type |-> SHEET_PK], [status |-> "urgent"],
     ServicedArgs("ZIF", "all", "Pk", "success"),
     ServicedArgs("Kotelnaya", "all", "", "success"),
     ServicedArgs("Kotelnaya", "all", "", ""),
     ServicedArgs("all", "closed", "", "error"),
     ServicedArgs("all", "all", "zz", "success"),
     ServicedArgs("all", "all", "  ", "success"),
     [sheet_type |-> "Sklad", serviced_status |-> "success"],
     [sheet_type |-> "all", serviced_status |-> "success"]}

DashboardRequest == \E args \in DashboardArgs : Dashboard(args, FALSE)

\* the browser follows a redirect to the dashboard
FollowRedirect ==
    /\ response.kind = "redirect"
    /\ "to" \in DOMAIN response
    /\ response.to = "dashboard"
    /\ Dashboard(response.args, TRUE)

InitWeb ==
    /\ today = FirstDay
    /\ tick = 0
    /\ \E n \in {0, 2} :
        /\ historyFile = EarlierFile(n)
        /\ calls = EarlierCalls(n)
    /\ stats = NoStats
    /\ lastCall = NoCall
    /\ ioFailures = 0
    /\ workbook \in {StandardWorkbook, QuietWorkbook, MissingWorkbook}
    /\ locked = FALSE
    /\ backups = <<>>
    /\ events = <<>>
    /\ response = NoResponse
    /\ chartFile = NoChart
    /\ outbox = <<>>
    /\ tmpFile = NoTmp
    /\ procs = NoProcs

NextWeb == DashboardRequest \/ FollowRedirect

SpecWeb == InitWeb /\ [][NextWeb]_vars

---------------------------------------------------------------------------
(* Two mark_as_serviced calls at the same time.  The web server answers    *)
(* each request in a thread of its own and mark_as_serviced takes no lock: *)
(* the steps of a call are the test of the file, load_workbook with the    *)
(* search and the assignment in memory, the truncating open of wb.save and *)
(* its write.                                                              *)

Callers == {1, 2}

\* the rows that the two calls are asked to mark
ServiceTargets ==
    {[sheet_name |-> SHEET_PK, row_number |-> "1"],
     [sheet_name |-> SHEET_PK, row_number |-> "2"],
     [sheet_name |-> SHEET_CABINETS, row_number |-> "2"]}

ServiceCall(target) ==
    [pc |-> "start", sheet_name |-> target.sheet_name,
     row_number |-> target.row_number, found_row |-> 0,
     wb |-> MissingWorkbook, result |-> "none"]

Returned(call, result) == [call EXCEPT !.pc = "done", !.result = result]

\* lines 386-395: the file exists, is not locked, the backup
TestFile(p) ==
    /\ procs[p].pc = "start"
    /\ IF workbook.st = "missing" \/ is_file_locked(workbook, locked)
       THEN /\ procs' = [procs EXCEPT ![p] = Returned(@, "failure")]
            /\ UNCHANGED backups
       ELSE /\ procs' = [procs EXCEPT ![p].pc = "load"]
            /\ backups' = create_backup(workbook, backups,
                                        [day |-> today, tick |-> tick], "ok").backups
    /\ UNCHANGED <<today, tick, historyFile, stats, lastCall, calls, ioFailures,
                   workbook, locked, events, response, chartFile, outbox, tmpFile>>

\* lines 401-444: load_workbook, the search of the row, the date set in the
\* workbook in memory
LoadWorkbook(p) ==
    /\ procs[p].pc = "load"
    /\ LET call == procs[p]
           found_row ==
               IF \/ workbook.st # "ok"
                  \/ call.sheet_name \notin DOMAIN workbook.sheets
                  \/ IntOfStr(call.row_number) = -1
               THEN 0
               ELSE find_row(workbook.sheets[call.sheet_name],
                             IntOfStr(call.row_number),
                             start_row, start_row + max_rows - 1)
       IN  IF found_row = 0
           THEN procs' = [procs EXCEPT ![p] = Returned(@, "failure")]
           ELSE procs' = [procs EXCEPT
                    ![p].pc = "save",
                    ![p].found_row = found_row,
                    ![p].wb = [workbook EXCEPT
                                 !.sheets[call.sheet_name][found_row].last_date =
                                     DateCell([day |-> today, tick |-> tick])]]
    /\ UNCHANGED <<today, tick, historyFile, stats, lastCall, calls, ioFailures,
                   workbook, locked, backups, events, response, chartFile, outbox,
                   tmpFile>>

\* line 446, wb.save: the file is opened for writing, which empties it
OpenForSave(p) ==
    /\ procs[p].pc = "save"
    /\ workbook' = [workbook EXCEPT !.st = "damaged"]
    /\ procs' = [procs EXCEPT ![p].pc = "write"]
    /\ UNCHANGED <<today, tick, historyFile, stats, lastCall, calls, ioFailures,
                   locked, backups, events, response, chartFile, outbox, tmpFile>>

\* line 446, wb.save: the workbook in memory is written, and the call returns
\* True (lines 448-449)
WriteWorkbook(p) ==
    /\ procs[p].pc = "write"
    /\ workbook' = procs[p].wb
    /\ procs' = [procs EXCEPT ![p] = Returned(@, "success")]
    /\ UNCHANGED <<today, tick, historyFile, stats, lastCall, calls, ioFailures,
                   locked, backups, events, response, chartFile, outbox, tmpFile>>

InitRace ==
    /\ today = FirstDay
    /\ tick = 1
    /\ historyFile = MissingFile
    /\ calls = <<>>
    /\ stats = NoStats
    /\ lastCall = NoCall
    /\ ioFailures = 0
    /\ workbook = StandardWorkbook
    /\ locked = FALSE
    /\ backups = <<>>
    /\ events = <<>>
    /\ response = NoResponse
    /\ chartFile = NoChart
    /\ outbox = <<>>
    /\ tmpFile = NoTmp
    /\ \E t1, t2 \in ServiceTargets :
        /\ t1 # t2
        /\ procs = (1 :> ServiceCall(t1)) @@ (2 :> ServiceCall(t2))

NextRace ==
    \E p \in Callers :
        \/ TestFile(p)
        \/ LoadWorkbook(p)
        \/ OpenForSave(p)
        \/ WriteWorkbook(p)

SpecRace == InitRace /\ [][NextRace]_vars

---------------------------------------------------------------------------
(* Two update_statistics calls at the same time, on one history file: two  *)
(* requests of the web server, or the scheduled run beside it.  The steps  *)
(* of a call are the read of load_config and, for each save_config, the    *)
(* open(history_file, 'w') that empties the file and the json.dump that    *)
(* writes it.                                                              *)

\* the time at which call p takes its timestamps
TimeOf(p) == [day |-> today, tick |-> p]

StatisticsCall(c) ==
    [pc |-> "start", counts |-> c,
     config |-> [maintenance_history |-> <<>>, last_update |-> NoTime,
                 version |-> VERSION]]

\* lines 593-622 of update_statistics: today's record put into the loaded
\* configuration
WithTodaysRecord(config, counts, now) ==
    [config EXCEPT !.maintenance_history =
        updated_history(@, maintenance_record(now, counts.total_records,
                                              counts.status_counts))]

\* load_config reads the file: a file that holds a configuration gives it,
\* a missing or an unparsable one makes the default configuration, which
\* is saved first
ReadConfig(p) ==
    /\ procs[p].pc = "start"
    /\ procs' = [procs EXCEPT ![p] =
          IF historyFile.st = "ok"
          THEN [@ EXCEPT !.pc = "open",
                         !.config = WithTodaysRecord(
                                        load_config(historyFile, TimeOf(p), "ok").config,
                                        procs[p].counts, TimeOf(p))]
          ELSE [@ EXCEPT !.pc = "open_default"]]
    /\ UNCHANGED <<today, tick, historyFile, stats, lastCall, calls, ioFailures,
                   workbook, locked, backups, events, response, chartFile, outbox,
                   tmpFile>>

\* save_config, open(self.history_file, 'w'): the file is emptied
OpenForWrite(p) ==
    /\ procs[p].pc \in {"open", "open_default"}
    /\ historyFile' = CorruptFile
    /\ procs' = [procs EXCEPT ![p].pc =
                    IF @ = "open" THEN "write" ELSE "write_default"]
    /\ UNCHANGED <<today, tick, stats, lastCall, calls, ioFailures, workbook,
                   locked, backups, events, response, chartFile, outbox, tmpFile>>

\* save_config, json.dump: the configuration in memory is written; after
\* the save of the default configuration the call goes on with it
WriteConfig(p) ==
    /\ procs[p].pc \in {"write", "write_default"}
    /\ \E saved \in {save_config(historyFile, procs[p].config, TimeOf(p), "ok")} :
        /\ historyFile' = saved.file
        /\ procs' = [procs EXCEPT ![p] =
              IF @.pc = "write"
              THEN [@ EXCEPT !.pc = "done", !.config = saved.config]
              ELSE [@ EXCEPT !.pc = "open",
                             !.config = WithTodaysRecord(saved.config,
                                                         procs[p].counts,
                                                         TimeOf(p))]]
    /\ UNCHANGED <<today, tick, stats, lastCall, calls, ioFailures, workbook,
                   locked, backups, events, response, chartFile, outbox, tmpFile>>

InitStatsRace ==
    /\ today = FirstDay
    /\ tick = 0
    /\ \E n \in {0, 1, 2} :
        /\ historyFile = EarlierFile(n)
        /\ calls = EarlierCalls(n)
        /\ lastCall = [op |-> "update_statistics_twice",
                       stored |-> IF n = 0 THEN <<>>
                                  ELSE EarlierFile(n).content.maintenance_history]
    /\ stats = NoStats
    /\ ioFailures = 0
    /\ workbook = MissingWorkbook
    /\ locked = FALSE
    /\ backups = <<>>
    /\ events = <<>>
    /\ response = NoResponse
    /\ chartFile = NoChart
    /\ outbox = <<>>
    /\ tmpFile = NoTmp
    /\ \E c1, c2 \in CountChoices :
        procs = (1 :> StatisticsCall(c1)) @@ (2 :> StatisticsCall(c2))

NextStatsRace ==
    \E p \in Callers :
        \/ ReadConfig(p)
        \/ OpenForWrite(p)
        \/ WriteConfig(p)

SpecStatsRace == InitStatsRace /\ [][NextStatsRace]_vars

---------------------------------------------------------------------------
(* POST /send-email beside GET /chart.png.  Both requests draw into the    *)
(* one file DATA_DIR/maintenance_status_chart.png: create_body calls       *)
(* create_chart() for the window that ends today, chart_png calls          *)
(* create_chart(offset_days) for the window the client asks for, and send  *)
(* reads the file by its path after create_body returned.  The history     *)
(* file is read and saved without failures here.                           *)

\* the offsets a client asks /chart.png for: one window back, the current
\* window, one window ahead
ChartOffsets == {0 - CHART_DAYS, 0, CHART_DAYS}

\* the picture that plt.savefig leaves in the file: the window it shows
savefig(offset_days) == [exists |-> TRUE, offset |-> offset_days]

EmailCall ==
    [pc |-> "read", handler |-> "send_email", data |-> NoStats, chart_path |-> "",
     body |-> NoStats, image |-> {}, answer |-> NoResponse]

ChartCall(offset_days) ==
    [pc |-> "draw", handler |-> "chart_png", offset |-> offset_days,
     chart_path |-> "", image |-> {}, answer |-> NoResponse]

\* send_email, lines 216-224: read_data, the redirect when nothing is due,
\* update_statistics
ReadAndRecord(p) ==
    /\ procs[p].pc = "read"
    /\ \E rc \in {recalculate_formulas(workbook, tmpFile, xl) : xl \in XlOutcomes} :
       \E data \in {read_data(excel_file_to_use(rc), rc.ok)} :
            /\ workbook' = rc.original
            /\ tmpFile' = rc.tmp
            /\ IF total_of(data.urgent_items) = 0 /\ total_of(data.warning_items) = 0
               THEN /\ procs' = [procs EXCEPT ![p].pc = "done",
                                              ![p].answer = EmailRedirect("no_items")]
                    /\ UNCHANGED <<historyFile, calls>>
               ELSE /\ historyFile' = update_statistics(historyFile, TimeOf(p),
                                          data.total_records, data.status_counts,
                                          "ok", "ok")
                    /\ calls' = (today :> [total_records |-> data.total_records,
                                           status_counts |-> data.status_counts])
                                @@ calls
                    /\ procs' = [procs EXCEPT ![p].pc = "body", ![p].data = data]
    /\ UNCHANGED <<today, tick, stats, lastCall, ioFailures, locked, backups,
                   events, response, chartFile, outbox>>

\* send_email, lines 226-232: create_body, whose create_chart() (line 936)
\* draws the window that ends today into the file
CreateBody(p) ==
    /\ procs[p].pc = "body"
    /\ \E ch \in {create_chart(historyFile, chartFile, TimeOf(p), "ok", draw) :
                    draw \in DrawOutcomes} :
        /\ historyFile' = ch.file
        /\ chartFile' = IF ch.chart_path = "" THEN chartFile ELSE savefig(0)
        /\ procs' = [procs EXCEPT
                        ![p].pc = "send",
                        ![p].chart_path = ch.chart_path,
                        ![p].body = create_body(procs[p].data, ch.chart_path, ch.chart)]
    /\ UNCHANGED <<today, tick, stats, lastCall, calls, ioFailures, workbook,
                   locked, backups, events, response, outbox, tmpFile>>

\* send_email, lines 234-247: send opens the file at chart_path and reads
\* the picture that is in it now (lines 1067-1070 of maintenance_alert.py)
SendBody(p) ==
    /\ procs[p].pc = "send"
    /\ \E smtp \in SmtpOutcomes :
       \E r \in {send(outbox, procs[p].body, RECIPIENTS, procs[p].chart_path,
                      chartFile, procs[p].data.urgent_items # <<>>, smtp)} :
        /\ outbox' = r.outbox
        /\ events' = r.events
        /\ procs' = [procs EXCEPT
                        ![p].pc = "done",
                        ![p].image = IF r.sent /\ procs[p].chart_path # ""
                                        /\ chartFile.exists
                                     THEN {chartFile.offset} ELSE {},
                        ![p].answer = EmailRedirect(IF r.sent THEN "sent"
                                                    ELSE "error")]
    /\ UNCHANGED <<today, tick, historyFile, stats, lastCall, calls, ioFailures,
                   workbook, locked, backups, response, chartFile, tmpFile>>

\* chart_png, lines 202-208: create_chart(offset_days) draws the window the
\* client asked for into the file
DrawChart(p) ==
    /\ procs[p].pc = "draw"
    /\ \E ch \in {create_chart(historyFile, chartFile, TimeOf(p), "ok", draw) :
                    draw \in DrawOutcomes} :
        /\ historyFile' = ch.file
        /\ chartFile' = IF ch.chart_path = "" THEN chartFile
                        ELSE savefig(procs[p].offset)
        /\ procs' = [procs EXCEPT ![p].pc = "answer",
                                  ![p].chart_path = ch.chart_path]
    /\ UNCHANGED <<today, tick, stats, lastCall, calls, ioFailures, workbook,
                   locked, backups, events, response, outbox, tmpFile>>

\* chart_png, lines 209-211: 404, or send_file of the picture that is in
\* the file now
AnswerChart(p) ==
    /\ procs[p].pc = "answer"
    /\ procs' = [procs EXCEPT
                    ![p].pc = "done",
                    ![p].image = IF procs[p].chart_path = "" \/ ~chartFile.exists
                                 THEN {} ELSE {chartFile.offset},
                    ![p].answer = IF procs[p].chart_path = "" \/ ~chartFile.exists
                                  THEN [kind |-> "status", code |-> 404]
                                  ELSE [kind |-> "file", code |-> 200]]
    /\ UNCHANGED <<today, tick, historyFile, stats, lastCall, calls, ioFailures,
                   workbook, locked, backups, events, response, chartFile, outbox,
                   tmpFile>>

InitChartRace ==
    /\ today = FirstDay
    /\ tick = 0
    /\ \E n \in {0, 2} :
        /\ historyFile = EarlierFile(n)
        /\ calls = EarlierCalls(n)
    /\ stats = NoStats
    /\ lastCall = NoCall
    /\ ioFailures = 0
    /\ workbook \in {StandardWorkbook, QuietWorkbook}
    /\ locked = FALSE
    /\ backups = <<>>
    /\ events = <<>>
    /\ response = NoResponse
    /\ chartFile \in {NoChart} \cup {savefig(k) : k \in ChartOffsets}
    /\ outbox = <<>>
    /\ tmpFile = NoTmp
    /\ \E k \in ChartOffsets : procs = (1 :> EmailCall) @@ (2 :> ChartCall(k))

NextChartRace ==
    \E p \in Callers :
        \/ ReadAndRecord(p)
        \/ CreateBody(p)
        \/ SendBody(p)
        \/ DrawChart(p)
        \/ AnswerChart(p)

SpecChartRace == InitChartRace /\ [][NextChartRace]_vars

---------------------------------------------------------------------------
(* A history file that cannot be read.  The file of a program that ran on  *)
(* earlier days is found damaged (no JSON text, or not the text of an      *)
(* object); load_config is called on its own, as get_statistics and        *)
(* create_chart call it, or by update_statistics.                          *)

\* a call of load_config(); the save it makes for a file that is missing or
\* unreadable may fail while failures are allowed
LoadConfigCall ==
    /\ tick < MaxTick
    /\ \E o \in {x \in SaveOutcomes :
                    /\ historyFile.st = "ok" => x = "ok"
                    /\ x = "ok" \/ ioFailures < MaxFailures} :
       \E loaded \in {load_config(historyFile, [day |-> today, tick |-> tick + 1], o)} :
        /\ tick' = tick + 1
        /\ historyFile' = loaded.file
        /\ ioFailures' = ioFailures + (IF o = "ok" THEN 0 ELSE 1)
        /\ lastCall' = [op |-> "load_config", before |-> historyFile.st,
                        outcome |-> o, config |-> loaded.config]
    /\ UNCHANGED <<today, stats, calls, workbook, locked, backups, events,
                   response, chartFile, outbox, tmpFile, procs>>

InitUnreadable ==
    /\ today = FirstDay
    /\ tick = 0
    /\ \/ /\ historyFile = CorruptFile
          /\ calls = EarlierCalls(2)
       \/ \E n \in {0, 2} :
            /\ historyFile = EarlierFile(n)
            /\ calls = EarlierCalls(n)
    /\ stats = NoStats
    /\ lastCall = NoCall
    /\ ioFailures = 0
    /\ InitOther

NextUnreadable == LoadConfigCall \/ UpdateStatisticsCall \/ AdvanceDay

SpecUnreadable == InitUnreadable /\ [][NextUnreadable]_vars

---------------------------------------------------------------------------
(* Calls of read_data on workbooks of every kind of row, with and without  *)
(* a copy left in TMP_DIR by an earlier call                               *)

\* the status cells a row may hold: none, the three statuses, another text
StatusCells ==
    {None, StrCell(STATUS_URGENT), StrCell(STATUS_WARNING), StrCell(STATUS_OK),
     StrCell("Prosrocheno")}

\* the rows of a sheet: an empty row, or a numbered row with a status cell
ReadRows == {Row(None, None)} \cup {Row(IntCell(1), status) : status \in StatusCells}

\* the workbooks read: two rows of computers and one of cabinets beside a
\* sheet that SHEETS_CONFIG does not name, the same without the sheet of
\* the cabinets, the standard workbook, no workbook
ReadWorkbooks ==
    {[st |-> "ok",
      sheets |-> (SHEET_PK :> ((5 :> a) @@ (6 :> b)))
                 @@ (SHEET_CABINETS :> (5 :> c))
                 @@ (SHEET_OTHER :> (5 :> Row(IntCell(1), StrCell(STATUS_URGENT))))] :
        a \in ReadRows, b \in ReadRows, c \in ReadRows}
    \cup {[st |-> "ok", sheets |-> (SHEET_PK :> ((5 :> a) @@ (6 :> a)))] :
            a \in ReadRows}
    \cup {StandardWorkbook, MissingWorkbook}

\* a call of read_data(): the recalculation into TMP_DIR, then the sheets
\* of SHEETS_CONFIG read from the copy or from the original
ReadDataCall ==
    /\ tick < MaxTick
    /\ \E rc \in {recalculate_formulas(workbook, tmpFile, xl) : xl \in XlOutcomesOfRead} :
       \E data \in {read_data(excel_file_to_use(rc), rc.ok)} :
        /\ tick' = tick + 1
        /\ workbook' = rc.original
        /\ tmpFile' = rc.tmp
        /\ lastCall' = [op |-> "read_data", recalc |-> <<rc.ok, rc.path>>]
        /\ response' = data
    /\ UNCHANGED <<today, historyFile, stats, calls, ioFailures, locked, backups,
                   events, chartFile, outbox, procs>>

InitRead ==
    /\ today = FirstDay
    /\ tick = 0
    /\ historyFile = MissingFile
    /\ calls = <<>>
    /\ stats = NoStats
    /\ lastCall = NoCall
    /\ ioFailures = 0
    /\ workbook \in ReadWorkbooks
    /\ locked = FALSE
    /\ backups = <<>>
    /\ events = <<>>
    /\ response = NoResponse
    /\ chartFile = NoChart
    /\ outbox = <<>>
    /\ tmpFile \in {NoTmp, saved_copy(QuietWorkbook, "ok")}
    /\ procs = NoProcs

NextRead == ReadDataCall

SpecRead == InitRead /\ [][NextRead]_vars

---------------------------------------------------------------------------
(* Single calls of create_body, _verify_file_write and format_field_value *)

\* the items, counts and flags a caller may pass to create_body
BodyData ==
    [urgent_items : {<<>>, ItemsOf(StandardWorkbook, SHEETS_CONFIG, STATUS_URGENT)},
     warning_items : {<<>>, ItemsOf(StandardWorkbook, SHEETS_CONFIG, STATUS_WARNING)},
     total_records : {0, 8},
     status_counts : {[status \in Statuses |-> 0],
                      read_data(StandardWorkbook, TRUE).status_counts},
     recalc_success : BOOLEAN]

\* a call of create_body(urgent_items, warning_items, total_records,
\* status_counts, recalc_success); create_chart gives it chart_path
CreateBodyCall ==
    /\ lastCall = NoCall
    /\ \E data \in BodyData, chart_path \in {"", "maintenance_status_chart.png"} :
        /\ lastCall' = [op |-> "create_body", data |-> data, chart_path |-> chart_path]
        /\ response' = [kind |-> "body",
                        body |-> create_body(data, chart_path, chartFile)]
    /\ UNCHANGED <<today, tick, historyFile, stats, calls, ioFailures, workbook,
                   locked, backups, events, chartFile, outbox,
                   tmpFile, procs>>

\* the latest modification time of the files
\* a call of _verify_file_write
VerifyFileWriteCall ==
    /\ lastCall = NoCall
    /\ \E file \in FileChoices, original_mtime \in {NoMtime} \cup 0..MaxMtime :
        /\ lastCall' = [op |-> "_verify_file_write", file |-> file,
                        original_mtime |-> original_mtime]
        /\ response' = [kind |-> "bool",
                        value |-> _verify_file_write(file, original_mtime)]
    /\ UNCHANGED <<today, tick, historyFile, stats, calls, ioFailures, workbook,
                   locked, backups, events, chartFile, outbox,
                   tmpFile, procs>>

\* float('nan') and pandas.NaT, the two other values pd.isna answers True for
NaN == [t |-> "nan"]
NaT == [t |-> "nat"]

\* pd.isna(value) of a scalar
isna(value) == value.t \in {"none", "nan", "nat"}

\* str(value)
str(value) ==
    CASE value.t = "none" -> "None"
      [] value.t = "nan" -> "nan"
      [] value.t = "nat" -> "NaT"
      [] value.t = "int" -> ToString(value.v)
      [] value.t = "float" ->
            ToString(value.tenths \div 10) \o "." \o ToString(value.tenths % 10)
      [] value.t = "str" -> value.s

\* the values of a field of a row: missing ones, numbers, texts
FieldValues ==
    {None, NaN, NaT, IntCell(0), IntCell(7), FloatCell(20), FloatCell(25),
     StrCell(""), StrCell("nan"), StrCell("Vypolnit ochistku")}

\* format_field_value without the test of pd.isna
format_plain_str(value) == str(value)

\* format_field_value(value)
format_field_value(value) ==
    IF isna(value) THEN "" ELSE str(value)

\* a call of format_field_value
FormatFieldValueCall ==
    /\ lastCall = NoCall
    /\ \E value \in FieldValues :
        /\ lastCall' = [op |-> "format_field_value", value |-> value]
        /\ response' = [kind |-> "str", value |-> format_field_value(value)]
    /\ UNCHANGED <<today, tick, historyFile, stats, calls, ioFailures, workbook,
                   locked, backups, events, chartFile, outbox, tmpFile, procs>>

InitCalls ==
    /\ today = FirstDay
    /\ tick = 0
    /\ historyFile = MissingFile
    /\ calls = <<>>
    /\ stats = NoStats
    /\ lastCall = NoCall
    /\ ioFailures = 0
    /\ workbook = StandardWorkbook
    /\ locked = FALSE
    /\ backups = <<>>
    /\ events = <<>>
    /\ response = NoResponse
    /\ chartFile \in {NoChart, [exists |-> TRUE]}
    /\ outbox = <<>>
    /\ tmpFile = NoTmp
    /\ procs = NoProcs

NextCalls ==
    \/ CreateBodyCall
    \/ VerifyFileWriteCall
    \/ FormatFieldValueCall

SpecCalls == InitCalls /\ [][NextCalls]_vars

---------------------------------------------------------------------------
(* Properties of the history file *)

\* the records stored in the history file
History(file) ==
    IF file.st = "ok" /\ "maintenance_history" \in DOMAIN file.content
    THEN file.content.maintenance_history ELSE <<>>

\* the records of h with a date other than s, in order
OtherDates(h, s) ==
    LET Other(r) == r.date # s
    IN  SelectSeq(h, Other)

\* where record r first stands in b, 0 when it does not
PlaceIn(b, r) ==
    IF \E j \in 1..Len(b) : b[j] = r
    THEN CHOOSE j \in 1..Len(b) : b[j] = r /\ \A k \in 1..(j - 1) : b[k] # r
    ELSE 0

\* every record of a is in b, and the records of a stand in b in a's order
KeptInOrder(a, b) ==
    /\ \A i \in 1..Len(a) : PlaceIn(b, a[i]) # 0
    /\ \A i \in 1..(Len(a) - 1) : PlaceIn(b, a[i]) < PlaceIn(b, a[i + 1])

\* the step is an update_statistics call whose load and save succeeded
CleanUpdateStep == lastCall'.op = "update_statistics" /\ lastCall'.clean

DatesOf(h) == {fromisoformat(h[i].date) : i \in 1..Len(h)}

RecordCounts(r) ==
    [total_records |-> r.total_equipment,
     status_counts |-> [c \in Statuses |->
                          IF c = STATUS_URGENT THEN r.urgent
                          ELSE IF c = STATUS_WARNING THEN r.warning ELSE r.ok]]

---------------------------------------------------------------------------
(* Properties of get_statistics *)

\* the value of field in the record of h dated d, 0 without such a record
FieldOn(h, d, field) ==
    IF \E i \in 1..Len(h) : fromisoformat(h[i].date) = d
    THEN extract_value(field,
                       h[CHOOSE i \in 1..Len(h) : fromisoformat(h[i].date) = d])
    ELSE 0

\* the largest value of field in the records of h dated from..to, 0 without
\* such a record
MaxFieldIn(h, from, to, field) ==
    LET vals == {extract_value(field, h[i]) :
                    i \in {j \in 1..Len(h) : /\ from <= fromisoformat(h[j].date)
                                             /\ fromisoformat(h[j].date) <= to}}
    IN  IF vals = {} THEN 0 ELSE CHOOSE v \in vals : \A w \in vals : w <= v

\* get_statistics has returned the statistics of a history with records
Answered == stats.valid /\ lastCall.op = "get_statistics" /\ lastCall.history # <<>>

\* C3: get_statistics returns delta_ok_day, delta_ok_week and
\* delta_ok_month computed from the 'ok' field: today's ok minus
\* yesterday's, and the differences of the periods' ok values.
C3_DeltasFromOk ==
    Answered =>
        LET h == lastCall.history
            ok_raw == _aggregate_raw_field(h, today,
                                           _compute_period_boundaries(today), "ok")
        IN  /\ stats.value.delta_ok_day
                  = FieldOn(h, today, "ok") - FieldOn(h, today - 1, "ok")
            /\ stats.value.delta_ok_week = ok_raw.this_week - ok_raw.last_week
            /\ stats.value.delta_ok_month = ok_raw.this_month - ok_raw.last_month

\* C4: this_week is the largest value of the field in the records dated from
\* Monday of the current week to today, this_month the largest in the
\* records dated from the first of the current month to today.
C4_WeekAndMonthMaxima ==
    Answered =>
        LET h == lastCall.history
        IN  /\ stats.value.this_week
                  = MaxFieldIn(h, today - weekday(today), today, "ok")
            /\ stats.value.urgent_this_week
                  = MaxFieldIn(h, today - weekday(today), today, "urgent")
            /\ stats.value.this_month
                  = MaxFieldIn(h, Months[MonthOf(today)].first, today, "ok")
            /\ stats.value.urgent_this_month
                  = MaxFieldIn(h, Months[MonthOf(today)].first, today, "urgent")

---------------------------------------------------------------------------
(* Properties of the emails *)

\* the last message handed to the SMTP server
LastMessage == outbox[Len(outbox)]

\* the last step was run() or send_email() and delivered a message
Delivered == lastCall.op \in {"run", "send_email"} /\ lastCall.sent

\* C5 as stated: every email sent by run() or by /send-email carries the
\* chart as an inline image with Content-ID status_chart and its body
\* references cid:status_chart
C5_EveryEmailHasChart ==
    \A i \in 1..Len(outbox) :
        "status_chart" \in outbox[i].inline /\ outbox[i].body.chart_ref

\* C5 amended: an email carries the inline image status_chart exactly when
\* its body references cid:status_chart, and the email of a run carries both
\* exactly when create_chart of that run returned the chart's path; when it
\* returned None the email goes out with neither
C5_ChartWhenCreated ==
    /\ \A i \in 1..Len(outbox) :
        "status_chart" \in outbox[i].inline <=> outbox[i].body.chart_ref
    /\ Delivered =>
        /\ lastCall.chart_path # "" => LastMessage.body.chart_ref
        /\ lastCall.chart_path = "" => ~LastMessage.body.chart_ref

\* an email went out with the chart that its run drew
C5_Witness ==
    /\ Delivered
    /\ lastCall.chart_path # ""
    /\ "status_chart" \in LastMessage.inline
    /\ LastMessage.body.chart_ref

\* C6: every SMTP delivery of run() or /send-email has exactly
\* Config.RECIPIENTS as its envelope recipients and in its To header,
\* whatever the request's form and the workbook hold
C6_FixedRecipients ==
    \A i \in 1..Len(outbox) :
        outbox[i].rcpt_to = RECIPIENTS /\ outbox[i].To = RECIPIENTS

\* /send-email delivered a message for a form that names another recipient
C6_Witness ==
    /\ Delivered
    /\ lastCall.op = "send_email"
    /\ lastCall.form.recipients # <<>>
    /\ LastMessage.rcpt_to = RECIPIENTS

---------------------------------------------------------------------------
(* Properties of the servicing requests *)

\* the rows 5..504 of a sheet whose column A holds the number n
RowsNumbered(sheet, n) ==
    {r \in DOMAIN sheet :
        /\ 5 <= r /\ r <= 504
        /\ sheet[r].num.t # "none"
        /\ CellNumber(sheet[r].num) = n}

Least(S) == CHOOSE r \in S : \A q \in S : r <= q

\* this step is a /mark-serviced request whose mark_as_serviced succeeds
MarkedStep == lastCall'.op = "mark_serviced" /\ lastCall'.ok

\* C7: a successful mark_as_serviced(sheet_name, row_number) sets column I of
\* the first row among rows 5..504 of the sheet whose column-A number (the
\* cell's value under int(float(.))) is int(row_number) to the current date
\* and changes no other cell of the workbook
C7_MarksFirstMatchingRowOnly ==
    [][MarkedStep =>
        LET name == lastCall'.sheet_name
            hits == RowsNumbered(workbook.sheets[name], IntOfStr(lastCall'.row_number))
        IN  /\ name \in DOMAIN workbook.sheets
            /\ hits # {}
            /\ workbook' = [workbook EXCEPT
                   !.sheets[name][Least(hits)].last_date = DateCell(lastCall'.now)]
    ]_vars

\* number 1 of the first sheet, held by rows 5 and 8, was marked: row 5 has
\* the date of the request, row 8 has none
C7_Witness ==
    /\ lastCall.op = "mark_serviced" /\ lastCall.ok
    /\ lastCall.sheet_name = SHEET_PK /\ lastCall.row_number = "1"
    /\ workbook.sheets[SHEET_PK][5].last_date = DateCell(lastCall.now)
    /\ workbook.sheets[SHEET_PK][8].last_date = None

\* C8: when mark_as_serviced with make_backup=True (the call of
\* /mark-serviced) modifies the workbook, a backup holding the workbook as it
\* was before has been created in that call
C8_BackupBeforeModification ==
    [][(lastCall'.op = "mark_serviced" /\ workbook' # workbook) =>
        backups' = Append(backups, [stamp |-> lastCall'.now, content |-> workbook])
    ]_vars

BackupEvents == {"create_backup:ok", "create_backup:failed", "create_backup:no_file"}

\* the number of create_backup calls among the events of the last request
BackupCalls == Cardinality({i \in 1..Len(events) : events[i] \in BackupEvents})

BulkDone == lastCall.op = "mark_bulk_serviced"

\* C9: mark_bulk_serviced goes through every item once and ends with a
\* redirect: success_count + error_count is the number of items,
\* serviced_status is "error" when no item succeeded and "success" otherwise
C9_BulkCountsAndRedirect ==
    BulkDone =>
        /\ response.kind = "redirect"
        /\ lastCall.in_loop =>
            /\ lastCall.done = Len(lastCall.request.items)
            /\ lastCall.success_count + lastCall.error_count
                 = Len(lastCall.request.items)
            /\ response.serviced_status
                 = IF lastCall.success_count = 0 THEN "error" ELSE "success"

\* C10: a /mark-bulk-serviced request that reaches the item loop calls
\* create_backup exactly once, however many items it has; one that ends
\* before (unparsable or empty list, locked file) never calls it
C10_OneBackupPerBulkRequest ==
    BulkDone => BackupCalls = (IF lastCall.in_loop THEN 1 ELSE 0)

\* a bulk request marked two items after a single create_backup call
C10_Witness ==
    /\ BulkDone
    /\ lastCall.in_loop
    /\ lastCall.success_count >= 2
    /\ BackupCalls = 1
    /\ Len(backups) = 1

---------------------------------------------------------------------------
(* Properties of single calls *)

\* C11: the body create_body returns holds the banner of the open table
\* exactly when recalc_success is False, whatever the items and the counts
C11_BannerIffRecalcFailed ==
    lastCall.op = "create_body" =>
        (response.body.banner <=> ~lastCall.data.recalc_success)

\* create_body was called without items and with recalc_success False, as
\* the repository's test calls it, and the body holds the banner
C11_Witness ==
    /\ lastCall.op = "create_body"
    /\ ~lastCall.data.recalc_success
    /\ lastCall.data.urgent_items = <<>> /\ lastCall.data.warning_items = <<>>
    /\ response.body.banner

\* the last call was _verify_file_write
Verified == lastCall.op = "_verify_file_write"

---------------------------------------------------------------------------
(* Properties of the recalculation *)

Recalculated == lastCall'.op \in {"run", "send_email", "dashboard"}

\* C13: a handler that recalculates the formulas leaves the original workbook
\* as it was, whether the recalculation succeeds or fails, and a successful
\* recalculation returns TMP_DIR/<the original file name>, where the copy is
C13_OriginalNeverWritten ==
    [][Recalculated =>
          /\ workbook' = workbook
          /\ lastCall'.recalc[1] =>
                /\ lastCall'.recalc[2] = [dir |-> TMP_DIR, name |-> EXCEL_FILENAME]
                /\ tmpFile'.exists
                /\ tmpFile'.dir = TMP_DIR /\ tmpFile'.name = EXCEL_FILENAME
                /\ tmpFile'.sheets = workbook.sheets
          /\ ~lastCall'.recalc[1] => lastCall'.recalc[2] = NoPath]_vars

\* a handler has recalculated the formulas into the copy
C13_Witness ==
    /\ lastCall.op \in {"run", "send_email"}
    /\ lastCall.recalc[1]
    /\ tmpFile.exists /\ tmpFile.size > 0
    /\ workbook.st = "ok"

---------------------------------------------------------------------------
(* Properties of format_field_value *)

\* C14: format_field_value answers the empty string for None and NaN, never
\* the text 'nan' for a missing value, and str(value) for every other value
C14_MissingIsEmpty ==
    lastCall.op = "format_field_value" =>
        /\ response.kind = "str"
        /\ isna(lastCall.value) => response.value = "" /\ response.value # "nan"
        /\ ~isna(lastCall.value) => response.value = str(lastCall.value)

\* format_field_value has been called with NaN
C14_Witness ==
    /\ lastCall.op = "format_field_value"
    /\ lastCall.value = NaN
    /\ response.value = ""

---------------------------------------------------------------------------
(* Properties of the delivery *)

RECURSIVE CountOf(_, _)
CountOf(seq, e) ==
    IF seq = <<>> THEN 0
    ELSE (IF Head(seq) = e THEN 1 ELSE 0) + CountOf(Tail(seq), e)

\* C15: run() and POST /send-email use the SMTP server at most once; a send
\* that fails is logged once, answered False (the web request redirects
\* with email_status=error), and leaves no message delivered by a later try
C15_OneDeliveryAttempt ==
    lastCall.op \in {"run", "send_email"} =>
        /\ CountOf(events, "smtp") <= 1
        /\ CountOf(events, "log_error") > 0 =>
              /\ ~lastCall.sent
              /\ events = <<"smtp", "log_error">>
              /\ lastCall.op = "send_email" => response = EmailRedirect("error")
        /\ lastCall.sent <=> events = <<"smtp", "log_sent">>

\* a handler's send has failed
C15_Witness ==
    /\ lastCall.op \in {"run", "send_email"}
    /\ events = <<"smtp", "log_error">>
    /\ ~lastCall.sent

---------------------------------------------------------------------------
(* Properties of the dashboard *)

\* the rows of the workbook that the dashboard lists and that pass the
\* filters of the query args
ListedRows(args) ==
    {<<name, r>> \in UNION {{<<n, q>> : q \in DataRows(workbook, n)} :
                               n \in {SHEETS_CONFIG[k] : k \in DOMAIN SHEETS_CONFIG}} :
        LET cells == workbook.sheets[name][r]
            label == IF cells.status = StrCell(STATUS_URGENT) THEN "urgent"
                     ELSE IF cells.status = StrCell(STATUS_WARNING) THEN "warning"
                     ELSE "none"
        IN  /\ label # "none"
            /\ get(args, "status", "all") \in {"all", label}
            /\ get(args, "sheet_type", "all") \in {"all", name}
            /\ get(args, "object", "all") \in {"all", cells.object.s}
            /\ contains(lower(cells.designation.s),
                        lower(strip(get(args, "designation", ""))))}

HasActiveFilters(args) ==
    \/ get(args, "sheet_type", "all") # "all"
    \/ get(args, "status", "all") # "all"
    \/ strip(get(args, "designation", "")) # ""
    \/ get(args, "object", "all") # "all"

ResetRedirect ==
    /\ response.kind = "redirect"
    /\ response.to = "dashboard"
    /\ DOMAIN response.args = {"serviced_status", "serviced_message"}
    /\ response.args.serviced_status = lastCall.args.serviced_status
    /\ response.args.serviced_message = get(lastCall.args, "serviced_message", "")

\* C16: a dashboard request that carries a serviced_status and whose active
\* filters match no row is redirected to the dashboard with the
\* serviced_status and message alone, every other request is rendered, and
\* the request that follows a reset redirect is rendered: no second reset
C16_FilterResetOnce ==
    lastCall.op = "dashboard" =>
        /\ ( /\ get(lastCall.args, "serviced_status", "") # ""
             /\ HasActiveFilters(lastCall.args)
             /\ ListedRows(lastCall.args) = {} ) => ResetRedirect
        /\ response.kind \in {"redirect", "render"}
        /\ response.kind = "redirect" =>
              /\ ResetRedirect
              /\ get(lastCall.args, "serviced_status", "") # ""
              /\ HasActiveFilters(lastCall.args)
              /\ ListedRows(lastCall.args) = {}
        /\ lastCall.followed => response.kind = "render"

\* the browser has followed a reset redirect and got the page
C16_Witness ==
    /\ lastCall.op = "dashboard"
    /\ lastCall.followed
    /\ response.kind = "render"
    /\ response.serviced_status = "success"

\* the rows that read_data counts in workbook wb, and its counts
CountedRows(wb) ==
    UNION {{<<n, r>> : r \in DataRows(wb, n)} :
              n \in {SHEETS_CONFIG[k] : k \in DOMAIN SHEETS_CONFIG}}

CountsRead(wb) ==
    [total_records |-> Cardinality(CountedRows(wb)),
     status_counts |->
        [c \in Statuses |->
            Cardinality({x \in CountedRows(wb) :
                            wb.sheets[x[1]][x[2]].status = StrCell(c)})]]

---------------------------------------------------------------------------
(* Properties of failed servicing calls *)

\* the failures of mark_as_serviced that happen before wb.save is called
FailuresBeforeSave ==
    {"file_not_found", "file_locked", "sheet_not_found", "bad_row_number",
     "row_not_found", "update_error"}

\* C18: a mark_as_serviced call that returns failure because the file is
\* missing or locked, the sheet or the row is not found, the row number is
\* no integer or loading raised, leaves the workbook exactly as it was
C18_FailureLeavesWorkbook ==
    [][( /\ lastCall'.op = "mark_serviced"
         /\ response'.serviced_status = "error"
         /\ response'.serviced_message \in FailuresBeforeSave
         /\ \A i \in DOMAIN events' : events'[i] # "save:failed" )
         => workbook' = workbook]_vars

\* a call has failed for a row that the sheet does not hold, after loading
\* the workbook
C18_Witness ==
    /\ lastCall.op = "mark_serviced"
    /\ response.serviced_status = "error"
    /\ response.serviced_message = "row_not_found"
    /\ \E i \in DOMAIN events : events[i] = "load_workbook"
    /\ workbook.st = "ok"

---------------------------------------------------------------------------
(* Properties of calls at the same time *)

BothReturned(result) ==
    /\ DOMAIN procs = Callers
    /\ \A p \in Callers : procs[p].pc = "done" /\ procs[p].result = result

\* C19: when two mark_as_serviced calls for different rows have both
\* returned success, the saved workbook holds the new date in both rows
C19_NoLostUpdate ==
    BothReturned("success") =>
        /\ workbook.st = "ok"
        /\ \A p \in Callers :
              workbook.sheets[procs[p].sheet_name][procs[p].found_row].last_date
                  = DateCell([day |-> today, tick |-> tick])

\* C20: when two update_statistics calls on one history file have both
\* completed, every record of an earlier date that was stored before them
\* is still stored
C20_EarlierRecordsSurvive ==
    ( /\ lastCall.op = "update_statistics_twice"
      /\ \A p \in Callers : procs[p].pc = "done" )
    => \A i \in 1..Len(lastCall.stored) :
          \E j \in 1..Len(History(historyFile)) :
              History(historyFile)[j] = lastCall.stored[i]

---------------------------------------------------------------------------
(* Properties: the chart of an email beside requests of /chart.png *)

\* the pictures read into the emails that /send-email has sent
AttachedCharts ==
    UNION {procs[p].image : p \in {q \in DOMAIN procs :
                                     /\ procs[q].handler = "send_email"
                                     /\ procs[q].pc = "done"}}

\* C21: the chart attached to an email that /send-email sent shows the
\* current window (offset 0), whatever /chart.png requests run beside it
C21_EmailChartIsCurrent == AttachedCharts \subseteq {0}

---------------------------------------------------------------------------
(* Properties: the unreadable history file *)

\* a step of load_config on a file that exists and cannot be read or parsed
LoadsUnreadable ==
    /\ tick' # tick
    /\ lastCall'.op = "load_config"
    /\ historyFile.st = "corrupt"

\* a step of update_statistics that saves, on a file that cannot be read or
\* on the file that load_config made of one
UpdatesAfterUnreadable ==
    /\ tick' # tick
    /\ lastCall'.op = "update_statistics"
    /\ \/ historyFile.st = "corrupt"
       \/ /\ lastCall.op = "load_config"
          /\ lastCall.before = "corrupt"
          /\ lastCall.outcome = "ok"
    /\ lastCall'.saved

---------------------------------------------------------------------------
(* Properties: the length of the history *)

\* a step of update_statistics that saves, on a full history that has no
\* record of today: the append makes HistoryLimit + 1 records
AppendOverflows ==
    /\ tick' # tick
    /\ lastCall'.op = "update_statistics"
    /\ lastCall'.saved
    /\ Len(History(historyFile)) = HistoryLimit
    /\ \A i \in 1..HistoryLimit : History(historyFile)[i].date # isoformat(today)

\* C23: the stored history never has more than 120 records; an append that
\* makes 121 records leaves the last 100 of them, today's record being the
\* last
C23_HistoryBounded ==
    /\ [](Len(History(historyFile)) <= HistoryLimit)
    /\ [][AppendOverflows =>
            /\ Len(History(historyFile')) = HistoryKeep
            /\ \A i \in 1..(HistoryKeep - 1) :
                  History(historyFile')[i] =
                      History(historyFile)[i + HistoryLimit + 1 - HistoryKeep]
            /\ History(historyFile')[HistoryKeep] =
                  maintenance_record([day |-> today, tick |-> tick'],
                                     lastCall'.counts.total_records,
                                     lastCall'.counts.status_counts)]_vars

\* the history was cut: it holds 100 records and today's is the last
C23_Witness ==
    /\ lastCall.op = "update_statistics"
    /\ lastCall.saved
    /\ Len(History(historyFile)) = HistoryKeep
    /\ History(historyFile)[HistoryKeep].date = isoformat(today)

---------------------------------------------------------------------------
(* Properties of read_data *)

\* the file that the last read_data call read, as the call left it
FileRead ==
    IF lastCall.recalc[1] THEN [st |-> "ok", sheets |-> tmpFile.sheets]
    ELSE workbook

\* every row of the items has the given status in the file read
AllOfStatus(items, status) ==
    \A i \in 1..Len(items) : \A r \in items[i].rows :
        FileRead.sheets[items[i].Tip][r].status = StrCell(status)

\* C24: read_data classifies consistently: urgent_items holds as many rows
\* as status_counts counts for the urgent status, warning_items as many as
\* for the warning status, every row of urgent_items has the urgent status
\* and every row of warning_items the warning status, and the three counts
\* together do not exceed total_records
C24_ConsistentClassification ==
    lastCall.op = "read_data" =>
        /\ total_of(response.urgent_items) = response.status_counts[STATUS_URGENT]
        /\ total_of(response.warning_items) = response.status_counts[STATUS_WARNING]
        /\ AllOfStatus(response.urgent_items, STATUS_URGENT)
        /\ AllOfStatus(response.warning_items, STATUS_WARNING)
        /\ Sum3(response.status_counts) <= response.total_records

\* read_data has read urgent rows, warning rows and a row of no known status
C24_Witness ==
    /\ lastCall.op = "read_data"
    /\ total_of(response.urgent_items) > 0
    /\ total_of(response.warning_items) > 0
    /\ Sum3(response.status_counts) < response.total_records

---------------------------------------------------------------------------
(* Properties: the statistics of an execution that mails *)

\* a step that is one execution of the handler op
Executes(op) == tick' # tick /\ lastCall'.op = op

\* the counts of the rows of each workbook that run() and /send-email meet
CountsOfWorkbook ==
    [wb \in {StandardWorkbook, QuietWorkbook, MissingWorkbook} |-> CountsRead(wb)]

\* the history file holds, after the step, one record of today, written in
\* this step with the counts c
RecordedInThisStep(c) ==
    LET h == History(historyFile')
        todays == {i \in 1..Len(h) : fromisoformat(h[i].date) = today}
    IN  /\ Cardinality(todays) = 1
        /\ \A i \in todays :
              /\ RecordCounts(h[i]) = c
              /\ h[i].timestamp = [day |-> today, tick |-> tick']

\* the step called update_statistics with the counts c, and its loads and
\* saves working, the history file holds the record
UpdatedStatistics(c) ==
    /\ today \in DOMAIN calls'
    /\ calls'[today] = c
    /\ ioFailures' = ioFailures => RecordedInThisStep(c)

NothingDue(c) ==
    /\ c.status_counts[STATUS_URGENT] = 0
    /\ c.status_counts[STATUS_WARNING] = 0

\* C25: an execution of run() or of /send-email that sends an email has
\* called update_statistics with the counts of its read_data result, which
\* are the numbers of the email; run() calls update_statistics in every
\* execution; /send-email with no urgent and no warning rows answers
\* email_status no_items and leaves the statistics alone
C25_StatisticsBeforeEmail ==
    [][ (Executes("run") \/ Executes("send_email")) =>
        \A c \in {CountsOfWorkbook[workbook]} :
            /\ lastCall'.sent =>
                  /\ UpdatedStatistics(c)
                  /\ Len(outbox') = Len(outbox) + 1
                  /\ outbox'[Len(outbox')].body.urgent = c.status_counts[STATUS_URGENT]
                  /\ outbox'[Len(outbox')].body.warning = c.status_counts[STATUS_WARNING]
            /\ lastCall'.op = "run" => UpdatedStatistics(c)
            /\ (lastCall'.op = "run" /\ NothingDue(c)) => outbox' = outbox
            /\ (lastCall'.op = "send_email" /\ NothingDue(c)) =>
                  /\ response' = EmailRedirect("no_items")
                  /\ historyFile' = historyFile
                  /\ calls' = calls
                  /\ outbox' = outbox
      ]_vars

\* /send-email has sent an email and today's record, written by the same
\* request, is in the history
C25_Witness ==
    /\ lastCall.op = "send_email"
    /\ lastCall.sent
    /\ ioFailures = 0
    /\ \E i \in 1..Len(History(historyFile)) :
          /\ History(historyFile)[i].timestamp = [day |-> today, tick |-> tick]
          /\ RecordCounts(History(historyFile)[i]) = CountsRead(workbook)
          /\ LastMessage.body.urgent = History(historyFile)[i].urgent

---------------------------------------------------------------------------
(* Properties: the file that read_data reads *)

\* the pairs recalculate_formulas may return
RecalcPairs ==
    {<<TRUE, [dir |-> TMP_DIR, name |-> EXCEL_FILENAME]>>, <<FALSE, NoPath>>}

\* response is what a reading of the sheets of wb gives
ReadFrom(wb) ==
    /\ response.total_records = CountsRead(wb).total_records
    /\ response.status_counts = CountsRead(wb).status_counts
    /\ \A status \in {STATUS_URGENT, STATUS_WARNING} :
        LET items == IF status = STATUS_URGENT THEN response.urgent_items
                     ELSE response.warning_items
        IN  UNION {{<<items[i].Tip, r>> : r \in items[i].rows} : i \in 1..Len(items)}
            = {x \in CountedRows(wb) : wb.sheets[x[1]][x[2]].status = StrCell(status)}
    /\ \A i \in 1..Len(response.urgent_items) : response.urgent_items[i].rows # {}
    /\ \A i \in 1..Len(response.warning_items) : response.warning_items[i].rows # {}

C26_WitnessCopy ==
    /\ lastCall.op = "read_data"
    /\ response.recalc_success
    /\ tmpFile.exists
    /\ response.total_records > 0

====
